---- MODULE Spec2Model ----
(***************************************************************************)
(* A model of the ORBIT ingestion core (calebyhan/orbit):                  *)
(*   - orbit/utils/key_rotation.py   KeyRotationManager                    *)
(*   - orbit/ingest/news.py          NewsBuffer, AlpacaNewsClient          *)
(*   - orbit/ingest/news_backfill.py backfill_news_date_range              *)
(*   - orbit/preprocess/cutoffs.py   apply_cutoff                          *)
(*   - orbit/preprocess/dedupe.py    cluster_duplicates                    *)
(* Every component has its own variables and its own specification; the    *)
(* variables of the other components stay at their initial values.         *)
(***************************************************************************)
EXTENDS Integers, Sequences, FiniteSets, TLC

VARIABLES
    \* ---- KeyRotationManager (key_rotation.py) ----
    num_keys,          \* len(self.keys); 0 before the manager is constructed
    strategy,          \* self.strategy
    quota_rpd,         \* self.quota_rpd; 0 stands for None
    requests_today,    \* KeyUsage.requests_today, by key index
    tokens_today,      \* KeyUsage.tokens_today, by key index
    last_reset_date,   \* KeyUsage.last_reset_date, by key index; 0 stands for None
    current_index,     \* self.current_index
    today,             \* the calendar date in the reset timezone (the environment)
    last_call,         \* the manager method that ran last
    returned,          \* what the last get_next_key returned: a key index, or Exhausted
    checked,           \* the key indices the last get_next_key passed to
                       \* _is_key_available in its round-robin loop, in order
    \* ---- workers sharing one manager ----
    worker_key,        \* per worker: the key index it holds between get_next_key
                       \* and record_usage, or NoKey
    \* ---- AlpacaNewsClient and its NewsBuffer (news.py) ----
    cpc,               \* where the client is: "none" (not constructed), "idle"
                       \* (in connect(), no socket open), "running" (inside
                       \* run_forever, socket open), "returned" (connect() is
                       \* over), "unwinding" (an exception left connect()),
                       \* "closed" (ingest_news returned), "raised"
                       \* (ingest_news raised)
    flush_size,        \* NewsBuffer.flush_size
    flush_interval_sec,\* NewsBuffer.flush_interval_sec
    max_reconnect_attempts, \* AlpacaNewsClient.max_reconnect_attempts
    buffer,            \* NewsBuffer.buffer, a sequence of normalized records
    seen_ids,          \* NewsBuffer.seen_ids
    last_flush_time,   \* NewsBuffer.last_flush_time
    now,               \* time.time() (the environment)
    connected,         \* AlpacaNewsClient.connected
    authenticated,     \* AlpacaNewsClient.authenticated
    subscribed,        \* AlpacaNewsClient.subscribed
    reconnect_attempt, \* AlpacaNewsClient.reconnect_attempt
    messages_received, \* AlpacaNewsClient.messages_received
    messages_buffered, \* AlpacaNewsClient.messages_buffered
    messages_rejected, \* AlpacaNewsClient.messages_rejected
    flushes_completed, \* AlpacaNewsClient.flushes_completed
    news_files,        \* storage: by date, the records of
                       \* raw/news/date=D/news.parquet; << >> when the file is absent
    sent,              \* the messages the client sent on the current socket
    inbound,           \* how many inbound messages were handled so far
    connects,          \* how many times run_forever was entered
    accepted_log,      \* every record NewsBuffer.add accepted, in order
    last_add,          \* what the last NewsBuffer.add did: "none", "added", "duplicate"
    flush_trigger,     \* why the last _flush_buffer ran: "none", "size", "time", "close"
    flush_raised,      \* whether the last _flush_buffer raised
    \* ---- apply_cutoff (cutoffs.py) ----
    cut_df,            \* the input frame: a sequence of rows [id, ts], ts in
                       \* minutes of exchange-local time
    cut_date,          \* date_T, as a day number; 0 before any call
    cut_lag,           \* safety_lag_minutes
    cut_training,      \* training
    cut_result,        \* the rows of the returned frame
    cut_columns,       \* the audit columns of the returned frame
    cut_dropped_late,  \* the value of its dropped_late_count column
    \* ---- cluster_duplicates (dedupe.py) ----
    clu_pairs,         \* pairs, a sequence of <<i, j>>
    clu_n,             \* n_items; -1 before any call
    clusters,          \* the returned dict: item index -> leader index
    \* ---- backfill_news_date_range (news_backfill.py) ----
    bpc,               \* "idle" (never run), "running", "done" (returned),
                       \* "crashed" (left by an exception), "interrupted"
    run,               \* how many runs were started
    reset,             \* the reset argument of the run
    stream_files,      \* storage: the days whose partition holds news.parquet
    backfill_files,    \* storage: the days whose partition holds
                       \* news_backfill.parquet
    checkpoint,        \* the checkpoint file of the run id
    existing_dates,    \* existing_dates, the result of the pre-scan
    loaded,            \* whether the run (with resume=True) loaded a checkpoint
    current_date,      \* current_date, as a day number
    page_token,        \* whether page_token holds a token
    retry_count,       \* retry_count
    retry_delay,       \* retry_delay, in seconds
    backoff,           \* the backoff slept after the last 429 of the page
    abandoned,         \* the days the run gave up at the 429 retry cap
    requests_made,     \* requests_made
    articles_fetched,  \* articles_fetched
    current_articles,  \* the days that have articles in current_articles
    response,          \* the local variable response
    requested,         \* the days the run issued a page request for
    persisted_before,  \* the days that had a partition file when the run began
    stale_processed,   \* how often the run processed the response of an
                       \* earlier request again
    \* ---- request pacing of backfill_news_date_range ----
    ppc,               \* "idle", "pacing" (in the request loop), "done"
    quota_rpm,         \* quota_rpm
    time_now,          \* what time.time() returns, in seconds
    last_request_time, \* last_request_time
    prev_request_time, \* the start time of the request before the last one
    paced_requests,    \* how many requests were started
    pacing_slept,      \* what the pacing sleep before the last request was
    last_outcome,      \* how the last request ended: "ok", "429", "error"
    \* ---- the two normalizers of a provider news message ----
    norm_called,       \* whether the message was normalized
    norm_msg,          \* the provider message
    stream_msg_id,     \* msg_id of normalize_alpaca_message(msg)
    stream_msg_id_2,   \* msg_id of a second normalize_alpaca_message(msg)
    rest_msg_id,       \* msg_id of normalize_alpaca_rest_message(msg)
    rest_msg_id_2,     \* msg_id of a second normalize_alpaca_rest_message(msg)
    \* ---- membership_window (cutoffs.py) ----
    win_date,          \* date_T, as a day of the year 2024; 0 before any call
    win_form,          \* how date_T was given: "naive" or "aware"
    win_start,         \* the returned start, a timezone-aware timestamp
    win_end,           \* the returned end
    \* ---- validate_cutoff_compliance (cutoffs.py) ----
    val_date,          \* date_T; 0 before any call
    val_df,            \* the frame passed in
    val_df_after,      \* the caller's frame after the call
    val_report,        \* the returned dict
    \* ---- add_dedup_fields (dedupe.py) ----
    ded_outcome,       \* "none" before the call, "returned" or "raised"
    ded_labels,        \* df.index: the label of the row at each position
    ded_pairs,         \* what find_duplicates returned: positions <<i, j>>
    ded_cluster_id,    \* the cluster_id column; an id is written as the
                       \* position of the row that carries it
    ded_is_dupe,       \* the is_dupe column
    \* ---- compute_novelty (dedupe.py) ----
    nov_called,        \* whether compute_novelty was called
    nov_current,       \* the fingerprints of current_texts
    nov_reference,     \* the fingerprints of reference_texts
    novelties,         \* the returned array, each score in 64ths
    \* ---- dedupe_and_score_novelty (dedupe.py) ----
    sco_outcome,       \* "none" before the call, "returned" or "raised"
    sco_labels,        \* current_df.index
    sco_current,       \* the fingerprint of the text of each row
    sco_reference,     \* reference_df: rows [hash, is_dupe]
    sco_is_dupe,       \* the is_dupe column of the returned frame
    sco_novelty,       \* its novelty column, in 64ths, or NaN
    \* ---- ingest_news when no connection attempt succeeds (news.py) ----
    conn_pc,           \* "none", "connecting" (in the loop of connect()),
                       \* "returned" (connect() is over), "closed"
    conn_max,          \* max_reconnect_attempts
    conn_attempt,      \* self.reconnect_attempt
    conn_log,          \* what connect() did, in order: "try" for a
                       \* run_forever call, "sleep" for a time.sleep(delay)
    conn_delays,       \* the delays slept, in ms
    conn_result,       \* the dict ingest_news returned
    \* ---- batch_score_gemini (llm_gemini.py) ----
    sb_pc,             \* "none", "running" (in the loop over the batches),
                       \* "done" (returned), "raised"
    sb_items,          \* len(items); the id of an item is its position
    sb_batch_size,     \* batch_size
    sb_batch_idx,      \* the next batch_idx of the loop
    sb_results,        \* results: entries [id, kind], kind "scored" for an
                       \* entry of the API response, "neutral" for a fill
    sb_exhausted,      \* the batches whose get_next_key raised RuntimeError
    sb_output,         \* the returned frame: for each input item, the
                       \* results its rows carry
    \* ---- the start of backfill_news_date_range on any checkpoint file ----
    ck_outcome,        \* "none" before the run, "started" (the day loop is
                       \* reached) or "crashed" (an exception ended the run)
    ck_file,           \* the checkpoint file of the run id: [kind, last_date]
    ck_resume,         \* resume
    ck_reset,          \* reset
    ck_partitions,     \* the days that have a partition with a parquet file
    ck_first_day,      \* the first day the day loop fetches, or EndDay
    \* ---- _on_message with validate_news_message (news.py) ----
    rejects_file,      \* the records written under rejects/news, in order
    last_errors,       \* what validate_news_message returned last
    \* ---- backfill_social (social_arctic.py) ----
    spc,               \* where the run is: "idle", "running", "done", "crashed"
    social_checkpoint, \* the local variable checkpoint: what was loaded, or None
    social_checkpoint_file, \* the checkpoint file on disk
    total_posts,       \* total_posts
    total_requests,    \* total_requests
    subrange           \* the (date, subreddit) pair the loops are at, by rank

rotVars == <<num_keys, strategy, quota_rpd, requests_today, tokens_today,
             last_reset_date, current_index, today, last_call, returned,
             checked>>
workerVars == <<worker_key>>
bufferVars == <<buffer, seen_ids, last_flush_time>>
flagVars == <<connected, authenticated, subscribed>>
statVars == <<messages_received, messages_buffered, messages_rejected>>
flushVars == <<flushes_completed, news_files, flush_trigger, flush_raised>>
configVars == <<flush_size, flush_interval_sec, max_reconnect_attempts>>
streamVars == <<cpc, configVars, bufferVars, now, flagVars, reconnect_attempt,
                statVars, flushVars, sent, inbound, connects, accepted_log,
                last_add>>
cutVars == <<cut_df, cut_date, cut_lag, cut_training, cut_result, cut_columns,
             cut_dropped_late>>
cluVars == <<clu_pairs, clu_n, clusters>>
diskVars == <<stream_files, backfill_files, checkpoint>>
runVars == <<run, reset, existing_dates, loaded, persisted_before>>
retryVars == <<retry_count, retry_delay, backoff>>
loopVars == <<current_date, page_token, retryVars, abandoned, requests_made,
              articles_fetched, current_articles, response, requested,
              stale_processed>>
backfillVars == <<bpc, diskVars, runVars, loopVars>>
paceVars == <<ppc, quota_rpm, time_now, last_request_time, prev_request_time,
              paced_requests, pacing_slept, last_outcome>>
normVars == <<norm_called, norm_msg, stream_msg_id, stream_msg_id_2,
              rest_msg_id, rest_msg_id_2>>
winVars == <<win_date, win_form, win_start, win_end>>
valVars == <<val_date, val_df, val_df_after, val_report>>
dedVars == <<ded_outcome, ded_labels, ded_pairs, ded_cluster_id, ded_is_dupe>>
novVars == <<nov_called, nov_current, nov_reference, novelties>>
scoVars == <<sco_outcome, sco_labels, sco_current, sco_reference,
             sco_is_dupe, sco_novelty>>
connVars == <<conn_pc, conn_max, conn_attempt, conn_log, conn_delays,
              conn_result>>
sbVars == <<sb_pc, sb_items, sb_batch_size, sb_batch_idx, sb_results,
            sb_exhausted, sb_output>>
ckVars == <<ck_outcome, ck_file, ck_resume, ck_reset, ck_partitions,
            ck_first_day>>
extVars == <<winVars, valVars, dedVars, novVars, scoVars, connVars, sbVars,
             ckVars>>
coreVars == <<rotVars, workerVars, streamVars, cutVars, cluVars, backfillVars,
              paceVars, normVars>>
rejVars == <<rejects_file, last_errors>>
socVars == <<spc, social_checkpoint, social_checkpoint_file, total_posts,
             total_requests, subrange>>
moreVars == <<rejVars, socVars>>
vars == <<coreVars, extVars, moreVars>>

\* what the actions of one component leave alone
outsideRot ==
    <<streamVars, cutVars, cluVars, backfillVars, paceVars, normVars,
      extVars, moreVars>>
outsideStream ==
    <<rotVars, workerVars, cutVars, cluVars, backfillVars, paceVars, normVars,
      extVars, moreVars>>
outsideCut ==
    <<rotVars, workerVars, streamVars, cluVars, backfillVars, paceVars,
      normVars, extVars, moreVars>>
outsideClu ==
    <<rotVars, workerVars, streamVars, cutVars, backfillVars, paceVars,
      normVars, extVars, moreVars>>
outsideBackfill ==
    <<rotVars, workerVars, streamVars, cutVars, cluVars, paceVars, normVars,
      extVars, moreVars>>
outsidePace ==
    <<rotVars, workerVars, streamVars, cutVars, cluVars, backfillVars,
      normVars, extVars, moreVars>>
outsideNorm ==
    <<rotVars, workerVars, streamVars, cutVars, cluVars, backfillVars,
      paceVars, extVars, moreVars>>
outsideWin ==
    <<coreVars, valVars, dedVars, novVars, scoVars, connVars, sbVars,
      ckVars, moreVars>>
outsideVal ==
    <<coreVars, winVars, dedVars, novVars, scoVars, connVars, sbVars,
      ckVars, moreVars>>
outsideDed ==
    <<coreVars, winVars, valVars, novVars, scoVars, connVars, sbVars,
      ckVars, moreVars>>
outsideNov ==
    <<coreVars, winVars, valVars, dedVars, scoVars, connVars, sbVars,
      ckVars, moreVars>>
outsideSco ==
    <<coreVars, winVars, valVars, dedVars, novVars, connVars, sbVars,
      ckVars, moreVars>>
outsideConn ==
    <<coreVars, winVars, valVars, dedVars, novVars, scoVars, sbVars,
      ckVars, moreVars>>
\* batch_score_gemini owns a key manager, so its actions also change rotVars
outsideSb == <<workerVars, streamVars, cutVars, cluVars, backfillVars,
               paceVars, normVars, winVars, valVars, dedVars, novVars,
               scoVars, connVars, ckVars, moreVars>>
\* the streamed message handler with its validation acts on the client
outsideRej ==
    <<rotVars, workerVars, cutVars, cluVars, backfillVars, paceVars, normVars,
      extVars, socVars>>
outsideSoc == <<coreVars, extVars, rejVars>>
outsideCk ==
    <<coreVars, winVars, valVars, dedVars, novVars, scoVars, connVars, sbVars,
      moreVars>>

(***************************************************************************)
(* Quota-aware credential rotator                                          *)
(***************************************************************************)

\* bounds of the model
MaxKeys == 2
MaxDay == 2
MaxUsage == 2
NumWorkers == 2

\* safety_margin: float = 0.95, as a percentage
SAFETY_MARGIN_PCT == 95

Exhausted == -1
NoKey == -2
NoDate == 0

RotationStrategy == {"round_robin", "least_used"}
QuotaChoices == {0, 1, 2, 3}
KeyIndices == 0..(num_keys - 1)
Workers == 1..NumWorkers

\* int(self.quota_rpd * self.safety_margin)
QuotaLimit == (quota_rpd * SAFETY_MARGIN_PCT) \div 100

\* the reset of the keys without its effect on the counters
ResetCounter_Never(counter, lrd) == counter

\* KeyUsage.reset_if_new_day applied to every key: the counters a key has
\* after the reset
ResetCounter(counter, lrd) ==
    [k \in KeyIndices |-> IF lrd[k] # today THEN 0 ELSE counter[k]]

ResetDates(lrd) == [k \in KeyIndices |-> today]

\* KeyRotationManager._is_key_available, on a key whose reset has been done
IsKeyAvailable(req, k) ==
    \/ quota_rpd = 0
    \/ req[k] < QuotaLimit

\* the round-robin loop returning the key at the cursor without the test of
\* _is_key_available
RoundRobinScan_Unchecked(left, idx, req, seen) ==
    [key |-> idx, index |-> (idx + 1) % num_keys, checked |-> Append(seen, idx)]

\* KeyRotationManager._get_next_round_robin: the loop over len(self.keys)
\* iterations, from index idx with `left` iterations to go
RECURSIVE RoundRobinScan(_, _, _, _)
RoundRobinScan(left, idx, req, seen) ==
    IF left = 0
    THEN [key |-> Exhausted, index |-> idx, checked |-> seen]
    ELSE LET next_index == (idx + 1) % num_keys
         IN  IF IsKeyAvailable(req, idx)
             THEN [key |-> idx, index |-> next_index,
                   checked |-> Append(seen, idx)]
             ELSE RoundRobinScan(left - 1, next_index, req, Append(seen, idx))

GetNextRoundRobin(req) == RoundRobinScan(num_keys, current_index, req, << >>)

\* KeyRotationManager._get_least_used: min() keeps the first of equal keys
GetLeastUsed(req) ==
    LET available_keys == {k \in KeyIndices : IsKeyAvailable(req, k)}
    IN  IF available_keys = {}
        THEN [key |-> Exhausted, index |-> current_index, checked |-> << >>]
        ELSE [key |-> CHOOSE k \in available_keys :
                         \A j \in available_keys :
                             \/ req[k] < req[j]
                             \/ req[k] = req[j] /\ k <= j,
              index |-> current_index, checked |-> << >>]

\* KeyRotationManager.get_next_key: the selection made on the reset counters
SelectKey(req) ==
    IF strategy = "round_robin" THEN GetNextRoundRobin(req) ELSE GetLeastUsed(req)

\* KeyRotationManager.__init__ with _load_keys: n keys found in the environment
ConstructCall(n, s, q) ==
    /\ num_keys = 0
    /\ num_keys' = n
    /\ strategy' = s
    /\ quota_rpd' = q
    /\ requests_today' = [k \in 0..(n - 1) |-> 0]
    /\ tokens_today' = [k \in 0..(n - 1) |-> 0]
    /\ last_reset_date' = [k \in 0..(n - 1) |-> NoDate]
    /\ current_index' = 0
    /\ checked' = << >>
    /\ last_call' = "init"
    /\ returned' = NoKey
    /\ UNCHANGED today

\* a manager is created
Construct(n, s, q) ==
    /\ ConstructCall(n, s, q)
    /\ UNCHANGED <<workerVars, outsideRot>>

\* the state change of one get_next_key call
GetNextKeyCall ==
    /\ num_keys > 0
    /\ LET req == ResetCounter(requests_today, last_reset_date)
           sel == SelectKey(req)
       IN  /\ requests_today' = req
           /\ tokens_today' = ResetCounter(tokens_today, last_reset_date)
           /\ last_reset_date' = ResetDates(last_reset_date)
           /\ current_index' = sel.index
           /\ checked' = sel.checked
           /\ returned' = sel.key
    /\ last_call' = "get_next_key"
    /\ UNCHANGED <<num_keys, strategy, quota_rpd, today>>

\* KeyRotationManager.get_next_key called by a single caller
GetNextKey ==
    /\ GetNextKeyCall
    /\ UNCHANGED <<workerVars, outsideRot>>

\* the state change of one record_usage(key_name, requests, tokens) call
RecordUsageCall(k, requests, tokens) ==
    /\ num_keys > 0
    /\ k \in KeyIndices
    /\ requests_today[k] + requests <= MaxUsage
    /\ tokens_today[k] + tokens <= MaxUsage
    /\ requests_today' = [requests_today EXCEPT ![k] = @ + requests]
    /\ tokens_today' = [tokens_today EXCEPT ![k] = @ + tokens]
    /\ last_call' = "record_usage"
    /\ UNCHANGED <<num_keys, strategy, quota_rpd, last_reset_date,
                   current_index, today, returned, checked>>

\* KeyRotationManager.record_usage called by a single caller
RecordUsage(k, requests, tokens) ==
    /\ RecordUsageCall(k, requests, tokens)
    /\ UNCHANGED <<workerVars, outsideRot>>

\* KeyRotationManager.get_stats: resets the counters of a new day
GetStats ==
    /\ num_keys > 0
    /\ requests_today' = ResetCounter(requests_today, last_reset_date)
    /\ tokens_today' = ResetCounter(tokens_today, last_reset_date)
    /\ last_reset_date' = ResetDates(last_reset_date)
    /\ last_call' = "get_stats"
    /\ UNCHANGED <<num_keys, strategy, quota_rpd, current_index, today,
                   returned, checked, workerVars, outsideRot>>

\* midnight passes in the reset timezone
DayRollover ==
    /\ today < MaxDay
    /\ today' = today + 1
    /\ UNCHANGED <<num_keys, strategy, quota_rpd, requests_today, tokens_today,
                   last_reset_date, current_index, last_call, returned,
                   checked, workerVars, outsideRot>>

\* a worker takes a key: key = manager.get_next_key()
WorkerGet(w) ==
    /\ worker_key[w] = NoKey
    /\ GetNextKeyCall
    /\ worker_key' = [worker_key EXCEPT ![w] = returned']
    /\ UNCHANGED outsideRot

\* the worker got RuntimeError and gives the work item up
WorkerGiveUp(w) ==
    /\ worker_key[w] = Exhausted
    /\ worker_key' = [worker_key EXCEPT ![w] = NoKey]
    /\ UNCHANGED <<rotVars, outsideRot>>

\* the worker records its request:
\* manager.record_usage(key_name=key.key_name, requests=1)
WorkerRecord(w) ==
    /\ worker_key[w] \in KeyIndices
    /\ RecordUsageCall(worker_key[w], 1, 0)
    /\ worker_key' = [worker_key EXCEPT ![w] = NoKey]
    /\ UNCHANGED outsideRot

InitRot ==
    /\ num_keys = 0
    /\ strategy = "round_robin"
    /\ quota_rpd = 0
    /\ requests_today = << >>
    /\ tokens_today = << >>
    /\ last_reset_date = << >>
    /\ current_index = 0
    /\ today = 1
    /\ last_call = "none"
    /\ returned = NoKey
    /\ checked = << >>
    /\ worker_key = [w \in Workers |-> NoKey]

NextRot ==
    \/ \E n \in 1..MaxKeys, s \in RotationStrategy, q \in QuotaChoices :
           Construct(n, s, q)
    \/ GetNextKey
    \/ \E k \in KeyIndices, requests \in 1..2, tokens \in 0..1 :
           RecordUsage(k, requests, tokens)
    \/ GetStats
    \/ DayRollover

NextWorkers ==
    \/ \E n \in 1..MaxKeys, s \in RotationStrategy, q \in QuotaChoices :
           Construct(n, s, q)
    \/ \E w \in Workers : WorkerGet(w)
    \/ \E w \in Workers : WorkerGiveUp(w)
    \/ \E w \in Workers : WorkerRecord(w)

(***************************************************************************)
(* Streaming ingestion client                                              *)
(***************************************************************************)

\* bounds of the model
MaxIds == 2
MaxDates == 2
MaxFlushSize == 2
MaxTime == 1
MaxInbound == 3
MaxConnects == 2

MsgIds == 1..MaxIds
Dates == 1..MaxDates
FlushIntervalChoices == {1}
AttemptChoices == {1, 2}

\* what the server can send: the two handshake messages and news messages; a
\* news message carries the id the normalizer gives it, the date of its
\* published_at and whether validate_news_message accepts it
NewsMessages == [T : {"n"}, id : MsgIds, date : Dates, valid : BOOLEAN]
ServerMessages ==
    {[T |-> "success"], [T |-> "subscription"]} \cup NewsMessages

\* the ids of the records of a sequence
IdsOf(records) == {records[i].msg_id : i \in 1..Len(records)}

\* the records of a sequence that belong to date d, in order
OfDate(records, d) == SelectSeq(records, LAMBDA r : r.date = d)

NoFiles == [d \in Dates |-> << >>]

\* NewsBuffer.add without its check of seen_ids
BufferAdd_NoSeenCheck(buf, seen, record) ==
    [buffer |-> Append(buf, record),
     seen_ids |-> seen \cup {record.msg_id},
     added |-> TRUE]

\* NewsBuffer.add: the buffer and the seen ids after the call, and its result
BufferAdd(buf, seen, record) ==
    IF record.msg_id \in seen
    THEN [buffer |-> buf, seen_ids |-> seen, added |-> FALSE]
    ELSE [buffer |-> Append(buf, record),
          seen_ids |-> seen \cup {record.msg_id},
          added |-> TRUE]

\* NewsBuffer.should_flush with > for >= in the size test
ShouldFlush_StrictSize(buf, t) ==
    IF Len(buf) > flush_size THEN "size"
    ELSE IF t - last_flush_time >= flush_interval_sec THEN "time"
    ELSE "none"

\* NewsBuffer.should_flush: "size", "time", or "none" when it returns False
ShouldFlush(buf, t) ==
    IF Len(buf) >= flush_size THEN "size"
    ELSE IF t - last_flush_time >= flush_interval_sec THEN "time"
    ELSE "none"

\* flush_to_parquet with io.write_parquet(overwrite=False): the date groups
\* are written in ascending date order, and the first group whose file
\* exists raises FileExistsError, which ends the loop
FlushToParquet(messages, files) ==
    LET groups == {messages[i].date : i \in 1..Len(messages)}
        existing == {d \in groups : files[d] # << >>}
        written == IF existing = {} THEN groups
                   ELSE {d \in groups : \A e \in existing : d < e}
    IN  [files |-> [d \in Dates |-> IF d \in written
                                    THEN OfDate(messages, d)
                                    ELSE files[d]],
         raised |-> existing # {}]

\* AlpacaNewsClient._flush_buffer on buffer buf: get_and_clear empties the
\* buffer and restarts the flush timer before anything is written
FlushBuffer(buf, why) ==
    LET flushed == FlushToParquet(buf, news_files)
    IN  /\ last_flush_time' = now
        /\ flush_trigger' = why
        /\ IF buf = << >>
           THEN /\ flush_raised' = FALSE
                /\ UNCHANGED <<news_files, flushes_completed>>
           ELSE /\ news_files' = flushed.files
                /\ flush_raised' = flushed.raised
                /\ flushes_completed' =
                       IF flushed.raised THEN flushes_completed
                       ELSE flushes_completed + 1

\* AlpacaNewsClient.__init__
ClientInit(fs, fi, ma) ==
    /\ cpc = "none"
    /\ cpc' = "idle"
    /\ flush_size' = fs
    /\ flush_interval_sec' = fi
    /\ max_reconnect_attempts' = ma
    /\ last_flush_time' = now
    /\ UNCHANGED <<buffer, seen_ids, now, flagVars, reconnect_attempt, statVars,
                   flushVars, sent, inbound, connects, accepted_log, last_add,
                   outsideStream>>

\* connect(): run_forever opens the socket and _on_open runs
OnOpen ==
    /\ cpc = "idle"
    /\ reconnect_attempt < max_reconnect_attempts
    /\ connects < MaxConnects
    /\ connects' = connects + 1
    /\ cpc' = "running"
    /\ connected' = TRUE
    /\ reconnect_attempt' = 0
    /\ sent' = <<"auth">>
    /\ UNCHANGED <<configVars, bufferVars, now, authenticated, subscribed,
                   statVars, flushVars, inbound, accepted_log, last_add,
                   outsideStream>>

\* _on_message for {"T": "success", "msg": "authenticated"}
OnAuthenticated ==
    /\ authenticated' = TRUE
    /\ sent' = Append(sent, "subscribe")
    /\ UNCHANGED <<bufferVars, connected, subscribed, statVars, flushVars,
                   accepted_log, last_add>>

\* _on_message for {"T": "subscription"}
OnSubscription ==
    /\ subscribed' = TRUE
    /\ UNCHANGED <<bufferVars, connected, authenticated, statVars, flushVars,
                   sent, accepted_log, last_add>>

\* _on_message for a news message that validate_news_message rejects
OnNewsRejected ==
    /\ messages_received' = messages_received + 1
    /\ messages_rejected' = messages_rejected + 1
    /\ UNCHANGED <<bufferVars, flagVars, messages_buffered, flushVars, sent,
                   accepted_log, last_add>>

\* _on_message for a valid news message: buffer.add, then should_flush and
\* _flush_buffer; an exception of the flush is caught and printed
OnNewsAccepted(msg) ==
    LET record == [msg_id |-> msg.id, date |-> msg.date]
        add == BufferAdd(buffer, seen_ids, record)
        why == ShouldFlush(add.buffer, now)
    IN  /\ messages_received' = messages_received + 1
        /\ seen_ids' = add.seen_ids
        /\ last_add' = IF add.added THEN "added" ELSE "duplicate"
        /\ messages_buffered' =
               IF add.added THEN messages_buffered + 1 ELSE messages_buffered
        /\ accepted_log' =
               IF add.added THEN Append(accepted_log, record) ELSE accepted_log
        /\ IF why # "none"
           THEN /\ buffer' = << >>
                /\ FlushBuffer(add.buffer, why)
           ELSE /\ buffer' = add.buffer
                /\ UNCHANGED <<last_flush_time, flushVars>>
        /\ UNCHANGED <<flagVars, messages_rejected, sent>>

\* AlpacaNewsClient._on_message: what it does to the client
OnMessageCall(msg) ==
    /\ cpc = "running"
    /\ inbound < MaxInbound
    /\ inbound' = inbound + 1
    /\ CASE msg.T = "success" -> OnAuthenticated
         [] msg.T = "subscription" -> OnSubscription
         [] msg.T = "n" /\ ~msg.valid -> OnNewsRejected
         [] msg.T = "n" /\ msg.valid -> OnNewsAccepted(msg)
    /\ UNCHANGED <<cpc, configVars, now, reconnect_attempt, connects>>

\* AlpacaNewsClient._on_message
OnMessage(msg) ==
    /\ OnMessageCall(msg)
    /\ UNCHANGED outsideStream

\* connect() after run_forever returned: back off and try again, or stop at
\* the attempt cap
AfterRunForever ==
    IF reconnect_attempt < max_reconnect_attempts - 1
    THEN /\ reconnect_attempt' = reconnect_attempt + 1
         /\ cpc' = "idle"
    ELSE /\ cpc' = "returned"
         /\ UNCHANGED reconnect_attempt

\* AlpacaNewsClient._on_close
OnCloseCallback ==
    /\ connected' = FALSE
    /\ authenticated' = FALSE
    /\ subscribed' = FALSE
    /\ buffer' = << >>
    /\ FlushBuffer(buffer, "close")
    /\ UNCHANGED seen_ids

\* the open socket closes: _on_close, then connect() goes on
OnClose ==
    /\ cpc = "running"
    /\ OnCloseCallback
    /\ AfterRunForever
    /\ UNCHANGED <<configVars, now, statVars, sent, inbound, connects,
                   accepted_log, last_add, outsideStream>>

\* a connection attempt fails: run_forever returns without _on_open, after
\* it called _on_close
ConnectFail ==
    /\ cpc = "idle"
    /\ reconnect_attempt < max_reconnect_attempts
    /\ connects < MaxConnects
    /\ connects' = connects + 1
    /\ OnCloseCallback
    /\ AfterRunForever
    /\ UNCHANGED <<configVars, now, statVars, sent, inbound, accepted_log,
                   last_add, outsideStream>>

\* connect(): except KeyboardInterrupt; an exception of the flush leaves
\* connect() and goes up through the finally clause of ingest_news
Interrupt ==
    /\ cpc \in {"idle", "running"}
    /\ buffer' = << >>
    /\ FlushBuffer(buffer, "close")
    /\ cpc' = IF flush_raised' THEN "unwinding" ELSE "returned"
    /\ UNCHANGED <<configVars, seen_ids, now, flagVars, reconnect_attempt,
                   statVars, sent, inbound, connects, accepted_log, last_add,
                   outsideStream>>

\* AlpacaNewsClient.close, called by ingest_news when connect() is over;
\* then ingest_news returns the statistics ("closed") or lets the exception
\* through ("raised")
Close ==
    /\ cpc \in {"returned", "unwinding"}
    /\ buffer' = << >>
    /\ FlushBuffer(buffer, "close")
    /\ cpc' = IF cpc = "unwinding" \/ flush_raised' THEN "raised" ELSE "closed"
    /\ UNCHANGED <<configVars, seen_ids, now, flagVars, reconnect_attempt,
                   statVars, sent, inbound, connects, accepted_log, last_add,
                   outsideStream>>

\* time passes
Tick ==
    /\ cpc \in {"idle", "running"}
    /\ now < MaxTime
    /\ now' = now + 1
    /\ UNCHANGED <<cpc, configVars, bufferVars, flagVars, reconnect_attempt,
                   statVars, flushVars, sent, inbound, connects, accepted_log,
                   last_add, outsideStream>>

InitStream ==
    /\ cpc = "none"
    /\ flush_size = 0
    /\ flush_interval_sec = 0
    /\ max_reconnect_attempts = 0
    /\ buffer = << >>
    /\ seen_ids = {}
    /\ last_flush_time = 0
    /\ now = 0
    /\ connected = FALSE
    /\ authenticated = FALSE
    /\ subscribed = FALSE
    /\ reconnect_attempt = 0
    /\ messages_received = 0
    /\ messages_buffered = 0
    /\ messages_rejected = 0
    /\ flushes_completed = 0
    /\ news_files = NoFiles
    /\ sent = << >>
    /\ inbound = 0
    /\ connects = 0
    /\ accepted_log = << >>
    /\ last_add = "none"
    /\ flush_trigger = "none"
    /\ flush_raised = FALSE

NextStream ==
    \/ \E fs \in 1..MaxFlushSize, fi \in FlushIntervalChoices,
          ma \in AttemptChoices : ClientInit(fs, fi, ma)
    \/ OnOpen
    \/ \E msg \in ServerMessages : OnMessage(msg)
    \/ OnClose
    \/ ConnectFail
    \/ Interrupt
    \/ Close
    \/ Tick

(***************************************************************************)
(* Temporal cutoff enforcer                                                *)
(***************************************************************************)

\* bounds of the model
MaxRows == 2
MaxTradingDay == 2

\* CUTOFF_HOUR, CUTOFF_MINUTE, DEFAULT_SAFETY_LAG_MINUTES
CUTOFF_HOUR == 15
CUTOFF_MINUTE == 30
DEFAULT_SAFETY_LAG_MINUTES == 30

MINUTES_PER_HOUR == 60
MINUTES_PER_DAY == 1440

\* membership_window: (T-1 15:30, T 15:30], in minutes since day 0, 00:00
MembershipWindow(T) ==
    [start |-> (T - 1) * MINUTES_PER_DAY + CUTOFF_HOUR * MINUTES_PER_HOUR
                   + CUTOFF_MINUTE,
     end |-> T * MINUTES_PER_DAY + CUTOFF_HOUR * MINUTES_PER_HOUR
                 + CUTOFF_MINUTE]

LagChoices == {-DEFAULT_SAFETY_LAG_MINUTES, 0, 1, DEFAULT_SAFETY_LAG_MINUTES}

\* the timestamps the input rows are drawn from: around both edges of the
\* window of day T and around the safety cutoff of each lag
TimestampChoices(T) ==
    LET w == MembershipWindow(T)
    IN  UNION {{e - 1, e, e + 1} :
                  e \in {w.start, w.end} \cup {w.end - L : L \in LagChoices}}

\* the frames with n rows whose timestamps are drawn from ts; a row's id is
\* its position
Frames(n, ts) ==
    {[i \in 1..n |-> [id |-> i, ts |-> f[i]]] : f \in [1..n -> ts]}

\* apply_cutoff with the window test ts_et >= start
CutoffMask_ClosedStart(row_ts, T, lag, training) ==
    LET w == MembershipWindow(T)
    IN  /\ row_ts >= w.start
        /\ row_ts <= w.end
        /\ ~(training /\ lag > 0 /\ row_ts > w.end - lag)

\* apply_cutoff: the value of mask for a row with timestamp row_ts
CutoffMask(row_ts, T, lag, training) ==
    LET w == MembershipWindow(T)
    IN  /\ row_ts > w.start
        /\ row_ts <= w.end
        /\ ~(training /\ lag > 0 /\ row_ts > w.end - lag)

\* apply_cutoff: late_mask.sum(), or 0 when the safety lag is not applied
DroppedLateCount(df, T, lag, training) ==
    IF training /\ lag > 0
    THEN Cardinality({i \in 1..Len(df) : df[i].ts > MembershipWindow(T).end - lag})
    ELSE 0

\* apply_cutoff(df, ts_column, date_T, safety_lag_minutes, training)
ApplyCutoff(df, T, lag, training) ==
    /\ cut_df' = df
    /\ cut_date' = T
    /\ cut_lag' = lag
    /\ cut_training' = training
    /\ IF df = << >>
       THEN /\ cut_result' = << >>
            /\ cut_columns' =
                   {"window_start_et", "window_end_et", "cutoff_applied_at"}
            /\ cut_dropped_late' = 0
       ELSE /\ cut_result' =
                   SelectSeq(df, LAMBDA r : CutoffMask(r.ts, T, lag, training))
            /\ cut_columns' =
                   {"window_start_et", "window_end_et", "cutoff_applied_at",
                    "dropped_late_count"}
            /\ cut_dropped_late' = DroppedLateCount(df, T, lag, training)
    /\ UNCHANGED outsideCut

InitCut ==
    /\ cut_df = << >>
    /\ cut_date = 0
    /\ cut_lag = 0
    /\ cut_training = FALSE
    /\ cut_result = << >>
    /\ cut_columns = {}
    /\ cut_dropped_late = 0

NextCut ==
    /\ cut_date = 0
    /\ \E T \in 1..MaxTradingDay, n \in 0..MaxRows, lag \in LagChoices,
          training \in BOOLEAN :
           \E df \in Frames(n, TimestampChoices(T)) :
               ApplyCutoff(df, T, lag, training)

(***************************************************************************)
(* Duplicate clustering                                                    *)
(***************************************************************************)

\* bounds of the model
MaxItems == 3
MaxPairs == 3

Items(n) == 0..(n - 1)

\* the elements of a finite set of integers in ascending order
RECURSIVE SetToSeq(_)
SetToSeq(S) ==
    IF S = {} THEN << >>
    ELSE LET m == CHOOSE x \in S : \A y \in S : x <= y
         IN  <<m>> \o SetToSeq(S \ {m})

\* cluster_duplicates with an adjacency that is filled in one direction only
Adjacency_OneWay(pairs, n) ==
    [i \in Items(n) |->
        {pairs[k][2] : k \in {k \in 1..Len(pairs) : pairs[k][1] = i}}]

\* cluster_duplicates: adj after the loop over pairs
Adjacency(pairs, n) ==
    [i \in Items(n) |->
        {pairs[k][2] : k \in {k \in 1..Len(pairs) : pairs[k][1] = i}}
        \cup {pairs[k][1] : k \in {k \in 1..Len(pairs) : pairs[k][2] = i}}]

\* cluster_duplicates: the while-stack loop of one component
RECURSIVE DepthFirst(_, _, _, _)
DepthFirst(adj, stack, visited, component) ==
    IF stack = << >>
    THEN [visited |-> visited, component |-> component]
    ELSE LET node == stack[Len(stack)]
             popped == SubSeq(stack, 1, Len(stack) - 1)
         IN  IF node \in visited
             THEN DepthFirst(adj, popped, visited, component)
             ELSE DepthFirst(adj, popped \o SetToSeq(adj[node]),
                             visited \cup {node}, Append(component, node))

\* cluster_duplicates: the loop over start in range(n_items)
RECURSIVE ClusterFrom(_, _, _, _, _)
ClusterFrom(adj, n, start, visited, result) ==
    IF start >= n THEN result
    ELSE IF start \in visited
    THEN ClusterFrom(adj, n, start + 1, visited, result)
    ELSE LET found == DepthFirst(adj, <<start>>, visited, << >>)
             members == {found.component[i] : i \in 1..Len(found.component)}
             leader == CHOOSE x \in members : \A y \in members : x <= y
         IN  ClusterFrom(adj, n, start + 1, found.visited,
                         [i \in DOMAIN result \cup members |->
                             IF i \in members THEN leader ELSE result[i]])

\* cluster_duplicates(pairs, n_items)
ClusterDuplicates(pairs, n) ==
    /\ clu_pairs' = pairs
    /\ clu_n' = n
    /\ clusters' = ClusterFrom(Adjacency(pairs, n), n, 0, {}, << >>)
    /\ UNCHANGED outsideClu

InitClu ==
    /\ clu_pairs = << >>
    /\ clu_n = -1
    /\ clusters = << >>

NextClu ==
    /\ clu_n = -1
    /\ \E n \in 0..MaxItems, k \in 0..MaxPairs :
           \E pairs \in [1..k -> Items(n) \X Items(n)] :
               ClusterDuplicates(pairs, n)

(***************************************************************************)
(* Checkpointed backfill engine                                            *)
(***************************************************************************)

\* bounds of the model
NumDays == 3
MaxRuns == 2
MaxRequests == 3
MaxStale == 1
MaxCounted == 4

\* CHECKPOINT_INTERVAL, MAX_RETRY_ATTEMPTS
CHECKPOINT_INTERVAL == 100
MAX_RETRY_ATTEMPTS == 5

\* retry_delay = 60 at the start of the retry loop
RETRY_DELAY_START == 60

\* the date range of the run: start_date is day 1, end_date (exclusive) is
\* the day after the last day
BackfillDays == 1..NumDays
EndDay == NumDays + 1

\* enough requests for a run to reach a periodic checkpoint and go on
LongRunRequests == CHECKPOINT_INTERVAL + NumDays

NoCheckpoint ==
    [exists |-> FALSE, last_date |-> 0, articles_fetched |-> 0,
     requests_made |-> 0]

\* response before the first successful fetch_news_page of the run
Unbound == [bound |-> FALSE, news |-> FALSE, token |-> FALSE]

\* scan_existing_news_dates: the partitions that hold a parquet file
ScanExistingNewsDates == stream_files \cup backfill_files

\* the while loop over the days: the first day from d on that is not
\* skipped as existing, or EndDay
RECURSIVE NextFetchDay(_, _)
NextFetchDay(d, existing) ==
    IF d >= EndDay THEN EndDay
    ELSE IF d \in existing THEN NextFetchDay(d + 1, existing)
    ELSE d

\* the end-of-run write: one news_backfill.parquet per day in ascending
\* order with write_parquet(overwrite=False), which raises FileExistsError
\* at the first day whose file exists
WriteArticles(days) ==
    LET existing == days \cap backfill_files
        written == IF existing = {} THEN days
                   ELSE {d \in days : \A e \in existing : d < e}
    IN  [files |-> backfill_files \cup written, raised |-> existing # {}]

\* lines 365-366: the retry state at the start of a page
NewPage ==
    /\ retry_count' = 0
    /\ retry_delay' = RETRY_DELAY_START
    /\ backoff' = 0

\* the run leaves the loop over the days: it writes the collected articles,
\* removes the checkpoint and returns its statistics
EndRun(days) ==
    LET w == WriteArticles(days)
    IN  /\ backfill_files' = w.files
        /\ bpc' = IF w.raised THEN "crashed" ELSE "done"
        /\ checkpoint' = IF w.raised THEN checkpoint ELSE NoCheckpoint
        /\ current_date' = EndDay
        /\ page_token' = FALSE
        /\ NewPage
        /\ UNCHANGED stream_files

\* the counters of the dict a run returns (its other entries are
\* elapsed_time, date_range and run_id)
ReturnedStatistics ==
    [articles_fetched |-> articles_fetched, requests_made |-> requests_made]

\* the run goes to day d, or ends when d is past the range
GoToDay(d, days) ==
    IF d < EndDay
    THEN /\ bpc' = "running"
         /\ current_date' = d
         /\ page_token' = FALSE
         /\ NewPage
         /\ UNCHANGED diskVars
    ELSE EndRun(days)

\* backfill_news_date_range up to its first request: the pre-scan, the
\* checkpoint and the resume cursor
BackfillStart(rst, rsm) ==
    /\ bpc # "running"
    /\ run < MaxRuns
    /\ run' = run + 1
    /\ reset' = rst
    /\ LET existing == IF rst THEN {} ELSE ScanExistingNewsDates
           ck == IF rsm /\ checkpoint.exists THEN checkpoint ELSE NoCheckpoint
           start_dt == IF ck.exists /\ ck.last_date > 1 THEN ck.last_date ELSE 1
       IN  /\ existing_dates' = existing
           /\ loaded' = ck.exists
           /\ articles_fetched' = ck.articles_fetched
           /\ requests_made' = ck.requests_made
           /\ GoToDay(NextFetchDay(start_dt, existing), {})
    /\ persisted_before' = ScanExistingNewsDates
    /\ current_articles' = {}
    /\ response' = Unbound
    /\ requested' = {}
    /\ abandoned' = {}
    /\ stale_processed' = 0
    /\ UNCHANGED outsideBackfill

\* lines 422-461 on response resp after rm requests: the articles are
\* appended and counted, then the page loop goes on with the next page token
\* (saving a checkpoint when rm is a multiple of CHECKPOINT_INTERVAL) or is
\* left for the next day
ProcessResponse(resp, rm) ==
    IF ~resp.news
    THEN /\ GoToDay(NextFetchDay(current_date + 1, existing_dates),
                    current_articles)
         /\ UNCHANGED <<articles_fetched, current_articles>>
    ELSE /\ current_articles' = current_articles \cup {current_date}
         /\ articles_fetched' = articles_fetched + 1
         /\ IF ~resp.token
            THEN GoToDay(NextFetchDay(current_date + 1, existing_dates),
                         current_articles \cup {current_date})
            ELSE /\ page_token' = TRUE
                 /\ NewPage
                 /\ checkpoint' =
                        IF rm % CHECKPOINT_INTERVAL = 0
                        THEN [exists |-> TRUE, last_date |-> current_date,
                              articles_fetched |-> articles_fetched + 1,
                              requests_made |-> rm]
                        ELSE checkpoint
                 /\ UNCHANGED <<bpc, current_date, stream_files,
                                backfill_files>>

\* a page request succeeds: news says whether the page holds articles, token
\* whether it names a next page
FetchOk(cap, news, token) ==
    /\ bpc = "running"
    /\ requests_made < cap
    /\ requested' = requested \cup {current_date}
    /\ requests_made' = requests_made + 1
    /\ response' = [bound |-> TRUE, news |-> news, token |-> news /\ token]
    /\ ProcessResponse(response', requests_made + 1)
    /\ UNCHANGED <<runVars, abandoned, stale_processed, outsideBackfill>>

\* Fetch429 with > for >= in the test of the retry cap
Fetch429_LateCap ==
    /\ bpc = "running"
    /\ requested' = requested \cup {current_date}
    /\ IF retry_count + 1 > MAX_RETRY_ATTEMPTS
       THEN /\ abandoned' = abandoned \cup {current_date}
            /\ GoToDay(NextFetchDay(current_date + 1, existing_dates),
                       current_articles)
       ELSE /\ retry_count' = retry_count + 1
            /\ backoff' = retry_delay
            /\ retry_delay' = retry_delay * 2
            /\ UNCHANGED <<bpc, current_date, page_token, diskVars, abandoned>>
    /\ UNCHANGED <<runVars, requests_made, articles_fetched, current_articles,
                   response, stale_processed, outsideBackfill>>

\* a page request is answered with HTTP 429
Fetch429 ==
    /\ bpc = "running"
    /\ requested' = requested \cup {current_date}
    /\ IF retry_count + 1 >= MAX_RETRY_ATTEMPTS
       THEN /\ abandoned' = abandoned \cup {current_date}
            /\ GoToDay(NextFetchDay(current_date + 1, existing_dates),
                       current_articles)
       ELSE /\ retry_count' = retry_count + 1
            /\ backoff' = retry_delay
            /\ retry_delay' = retry_delay * 2
            /\ UNCHANGED <<bpc, current_date, page_token, diskVars, abandoned>>
    /\ UNCHANGED <<runVars, requests_made, articles_fetched, current_articles,
                   response, stale_processed, outsideBackfill>>

\* a page request fails with another HTTP error, a timeout or a connection
\* error: the retry loop is left with retry_count < MAX_RETRY_ATTEMPTS and
\* line 425 reads response, which is unbound (UnboundLocalError) or still
\* holds the response of the last successful request
FetchError ==
    /\ bpc = "running"
    /\ requested' = requested \cup {current_date}
    /\ IF ~response.bound
       THEN /\ bpc' = "crashed"
            /\ UNCHANGED <<diskVars, current_date, page_token, retryVars,
                           articles_fetched, current_articles, stale_processed>>
       ELSE /\ response.news => stale_processed < MaxStale
            /\ stale_processed' =
                   IF response.news THEN stale_processed + 1 ELSE stale_processed
            /\ ProcessResponse(response, requests_made)
    /\ UNCHANGED <<runVars, abandoned, requests_made, response,
                   outsideBackfill>>

\* FetchError for as long as the requests fail: a stale response that names
\* a next page is processed at every failed request, and the page loop goes
\* on with the same page token. Nothing but the statistics reads the counter
\* articles_fetched, which is kept up to MaxCounted and stays there.
FetchErrorAgain ==
    /\ bpc = "running"
    /\ requested' = requested \cup {current_date}
    /\ IF ~response.bound
       THEN /\ bpc' = "crashed"
            /\ UNCHANGED <<diskVars, current_date, page_token, retryVars,
                           articles_fetched, current_articles, stale_processed>>
       ELSE IF response.news /\ response.token
       THEN /\ current_articles' = current_articles \cup {current_date}
            /\ articles_fetched' =
                   IF articles_fetched < MaxCounted THEN articles_fetched + 1
                   ELSE articles_fetched
            /\ stale_processed' =
                   IF stale_processed < MaxStale THEN stale_processed + 1
                   ELSE stale_processed
            /\ page_token' = TRUE
            /\ NewPage
            /\ checkpoint' =
                   IF requests_made % CHECKPOINT_INTERVAL = 0
                   THEN [exists |-> TRUE, last_date |-> current_date,
                         articles_fetched |-> articles_fetched',
                         requests_made |-> requests_made]
                   ELSE checkpoint
            /\ UNCHANGED <<bpc, current_date, stream_files, backfill_files>>
       ELSE /\ stale_processed' =
                   IF response.news /\ stale_processed < MaxStale
                   THEN stale_processed + 1 ELSE stale_processed
            /\ ProcessResponse(response, requests_made)
    /\ UNCHANGED <<runVars, abandoned, requests_made, response,
                   outsideBackfill>>

\* KeyboardInterrupt or a kill during the run: nothing handles it, what the
\* run held in memory is gone
BackfillInterrupt ==
    /\ bpc = "running"
    /\ bpc' = "interrupted"
    /\ current_articles' = {}
    /\ response' = Unbound
    /\ page_token' = FALSE
    /\ NewPage
    /\ current_date' = 1
    /\ requests_made' = 0
    /\ articles_fetched' = 0
    /\ UNCHANGED <<diskVars, runVars, abandoned, requested, stale_processed,
                   outsideBackfill>>

\* between two runs the streaming client flushes the records of one day d:
\* raw/news/date=d/news.parquet appears
StreamWrites(d) ==
    /\ bpc # "running"
    /\ run < MaxRuns
    /\ stream_files = {}
    /\ stream_files' = stream_files \cup {d}
    /\ UNCHANGED <<bpc, backfill_files, checkpoint, runVars, loopVars,
                   outsideBackfill>>

InitBackfill ==
    /\ bpc = "idle"
    /\ run = 0
    /\ reset = FALSE
    /\ stream_files = {}
    /\ backfill_files = {}
    /\ checkpoint = NoCheckpoint
    /\ existing_dates = {}
    /\ loaded = FALSE
    /\ current_date = 1
    /\ page_token = FALSE
    /\ retry_count = 0
    /\ retry_delay = RETRY_DELAY_START
    /\ backoff = 0
    /\ abandoned = {}
    /\ requests_made = 0
    /\ articles_fetched = 0
    /\ current_articles = {}
    /\ response = Unbound
    /\ requested = {}
    /\ persisted_before = {}
    /\ stale_processed = 0

\* the runs of one run id over one date range, each of at most MaxRequests
\* successful requests
NextBackfill ==
    \/ \E rst \in BOOLEAN, rsm \in BOOLEAN : BackfillStart(rst, rsm)
    \/ \E news \in BOOLEAN, token \in BOOLEAN :
           FetchOk(MaxRequests, news, token)
    \/ Fetch429
    \/ FetchError
    \/ BackfillInterrupt
    \/ \E d \in BackfillDays : StreamWrites(d)

\* one answer to the page request in flight
RequestAnswered ==
    \/ \E news \in BOOLEAN, token \in BOOLEAN :
           FetchOk(MaxRequests, news, token)
    \/ Fetch429
    \/ FetchErrorAgain

\* runs that nobody interrupts, whose requests may fail for ever
NextBackfillLive ==
    \/ \E rst \in BOOLEAN, rsm \in BOOLEAN : BackfillStart(rst, rsm)
    \/ RequestAnswered

\* runs of up to LongRunRequests requests that all succeed, on storage that
\* only the backfill writes
NextBackfillLong ==
    \/ \E rst \in BOOLEAN, rsm \in BOOLEAN : BackfillStart(rst, rsm)
    \/ \E news \in BOOLEAN, token \in BOOLEAN :
           FetchOk(LongRunRequests, news, token)
    \/ BackfillInterrupt

\* long runs whose requests succeed or are answered 429
NextBackfillLong429 ==
    \/ \E rst \in BOOLEAN, rsm \in BOOLEAN : BackfillStart(rst, rsm)
    \/ \E news \in BOOLEAN, token \in BOOLEAN :
           FetchOk(LongRunRequests, news, token)
    \/ Fetch429

(***************************************************************************)
(* Request pacing of the backfill engine                                   *)
(***************************************************************************)

\* bounds of the model
MaxElapsed == 8
MaxPacedRequests == 3
MaxOversleep == 1

\* request_interval = 60.0 / quota_rpm
SECONDS_PER_MINUTE == 60

\* the quotas of the model, whose intervals are whole seconds
RpmChoices == {20, 30}
RequestOutcomes == {"ok", "429", "error"}

\* time.time() when the run starts, and the last time the model lets it reach
ClockStart == SECONDS_PER_MINUTE
MaxClock == ClockStart + MaxElapsed

RequestInterval == SECONDS_PER_MINUTE \div quota_rpm

\* the pacing without its sleep
PacingSleep_None(t) == 0

\* lines 371-373: the sleep before a request at time t
PacingSleep(t) ==
    LET time_since_last == t - last_request_time
    IN  IF time_since_last < RequestInterval
        THEN RequestInterval - time_since_last
        ELSE 0

\* lines 324-328: the run starts its request loop
PaceStart(q) ==
    /\ ppc = "idle"
    /\ ppc' = "pacing"
    /\ quota_rpm' = q
    /\ last_request_time' = 0
    /\ UNCHANGED <<time_now, prev_request_time, paced_requests, pacing_slept,
                   last_outcome, outsidePace>>

\* one pass of the retry loop, for a first attempt or a retry, of any day:
\* the pacing sleep, which may last longer than asked by over seconds (the
\* choice of the credential included), the time stamp and the request,
\* which ends in outcome
PacedRequest(over, outcome) ==
    /\ ppc = "pacing"
    /\ paced_requests < MaxPacedRequests
    /\ time_now + PacingSleep(time_now) + over <= MaxClock
    /\ pacing_slept' = PacingSleep(time_now)
    /\ time_now' = time_now + PacingSleep(time_now) + over
    /\ prev_request_time' = last_request_time
    /\ last_request_time' = time_now'
    /\ paced_requests' = paced_requests + 1
    /\ last_outcome' = outcome
    /\ UNCHANGED <<ppc, quota_rpm, outsidePace>>

\* a second passes: the request is answered, the response is processed, the
\* run sleeps a 429 backoff
Elapse ==
    /\ ppc = "pacing"
    /\ time_now < MaxClock
    /\ time_now' = time_now + 1
    /\ UNCHANGED <<ppc, quota_rpm, last_request_time, prev_request_time,
                   paced_requests, pacing_slept, last_outcome, outsidePace>>

\* the day loop is over
PaceEnd ==
    /\ ppc = "pacing"
    /\ ppc' = "done"
    /\ UNCHANGED <<quota_rpm, time_now, last_request_time, prev_request_time,
                   paced_requests, pacing_slept, last_outcome, outsidePace>>

InitPace ==
    /\ ppc = "idle"
    /\ quota_rpm = SECONDS_PER_MINUTE
    /\ time_now = ClockStart
    /\ last_request_time = 0
    /\ prev_request_time = 0
    /\ paced_requests = 0
    /\ pacing_slept = 0
    /\ last_outcome = "none"

NextPace ==
    \/ \E q \in RpmChoices : PaceStart(q)
    \/ \E over \in 0..MaxOversleep, outcome \in RequestOutcomes :
           PacedRequest(over, outcome)
    \/ Elapse
    \/ PaceEnd

(***************************************************************************)
(* Message ids of the streaming and the backfill normalizer                *)
(***************************************************************************)

\* bound of the model: the largest provider id
MaxProviderId == 12

\* Python values: a key that is absent, an int, a str, and the hexdigest of
\* a SHA-1 hash, which stands for the content that was hashed
Absent == [kind |-> "absent", int |-> 0, str |-> ""]
PyInt(n) == [kind |-> "int", int |-> n, str |-> ""]
PyStr(t) == [kind |-> "str", int |-> 0, str |-> t]
Sha1Hex(content) == [kind |-> "sha1", int |-> 0, str |-> content]

Digits == <<"0", "1", "2", "3", "4", "5", "6", "7", "8", "9">>

\* str() of a non-negative int
RECURSIVE Decimal(_)
Decimal(n) ==
    IF n < 10 THEN Digits[n + 1]
    ELSE Decimal(n \div 10) \o Digits[(n % 10) + 1]

\* str(v)
Str(v) == IF v.kind = "int" THEN PyStr(Decimal(v.int)) ELSE v

\* the truth value Python gives v
Truthy(v) ==
    \/ v.kind = "int" /\ v.int # 0
    \/ v.kind = "str" /\ v.str # ""

\* msg.get(key, '') inside an f-string
GetOrEmpty(v) == IF v.kind = "str" THEN v.str ELSE ""

\* the provider messages of the model
ProviderIds ==
    {Absent, PyStr(""), PyStr("7"), PyInt(0), PyInt(7), PyInt(MaxProviderId)}
ProviderMessages ==
    [id : ProviderIds,
     headline : {Absent, PyStr(""), PyStr("h")},
     source : {Absent, PyStr("s")},
     created_at : {Absent, PyStr("t")},
     published_at : {Absent, PyStr("t")}]

\* compute_msg_id
ComputeMsgId(msg) ==
    IF Truthy(msg.id)
    THEN Str(msg.id)
    ELSE Sha1Hex(GetOrEmpty(msg.headline) \o GetOrEmpty(msg.source)
                     \o GetOrEmpty(msg.published_at))

\* normalize_alpaca_message(msg)["msg_id"]
NormalizeAlpacaMessage(msg) == ComputeMsgId(msg)

\* normalize_alpaca_rest_message(article)["msg_id"]
NormalizeAlpacaRestMessage(article) ==
    IF Truthy(article.id)
    THEN article.id
    ELSE Sha1Hex(GetOrEmpty(article.headline) \o GetOrEmpty(article.source)
                     \o GetOrEmpty(article.created_at))

\* the provider message msg comes in over the stream and in a backfill page,
\* and each normalizer is called twice on it
Normalize(msg) ==
    /\ norm_msg' = msg
    /\ norm_called' = TRUE
    /\ stream_msg_id' = NormalizeAlpacaMessage(msg)
    /\ stream_msg_id_2' = NormalizeAlpacaMessage(msg)
    /\ rest_msg_id' = NormalizeAlpacaRestMessage(msg)
    /\ rest_msg_id_2' = NormalizeAlpacaRestMessage(msg)
    /\ UNCHANGED outsideNorm

InitNorm ==
    /\ norm_called = FALSE
    /\ norm_msg = [id |-> Absent, headline |-> Absent, source |-> Absent,
                   created_at |-> Absent, published_at |-> Absent]
    /\ stream_msg_id = Absent
    /\ stream_msg_id_2 = Absent
    /\ rest_msg_id = Absent
    /\ rest_msg_id_2 = Absent

NextNorm ==
    /\ ~norm_called
    /\ \E msg \in ProviderMessages : Normalize(msg)

(***************************************************************************)
(* membership_window and the exchange timezone                             *)
(***************************************************************************)

\* bound of the model: date_T ranges over the days 1..MaxYearDay of 2024
MaxYearDay == 366

\* ET = pytz.timezone('America/New_York'): the UTC offsets in minutes, and
\* the days of 2024 on which the wall clock is switched at 02:00
EST_OFFSET == -300
EDT_OFFSET == -240
DST_START_DAY == 70
DST_END_DAY == 308
DST_SWITCH_MINUTE == 120

DateForms == {"naive", "aware"}

\* an exchange timezone that never observes daylight saving time
EtUtcOffset_Standard(day, minute) == EST_OFFSET

\* the UTC offset ET gives to the wall-clock time (day, minute of the day)
EtUtcOffset(day, minute) ==
    IF /\ \/ day > DST_START_DAY
          \/ day = DST_START_DAY /\ minute >= DST_SWITCH_MINUTE
       /\ \/ day < DST_END_DAY
          \/ day = DST_END_DAY /\ minute < DST_SWITCH_MINUTE
    THEN EDT_OFFSET
    ELSE EST_OFFSET

\* ET.localize(naive): the timezone-aware timestamp of a wall-clock time
EtLocalize(day, minute) ==
    [day |-> day, minute |-> minute, utcoffset |-> EtUtcOffset(day, minute)]

\* Timestamp.replace(hour, minute, second=0, microsecond=0) of an aware
\* timestamp: the new wall-clock time is localized again
ReplaceTime(ts, hour, minute) ==
    EtLocalize(ts.day, hour * MINUTES_PER_HOUR + minute)

\* the instant of an aware timestamp, in minutes of UTC
Instant(ts) == ts.day * MINUTES_PER_DAY + ts.minute - ts.utcoffset

\* membership_window(date_T) with its timezone-aware timestamps; a date given
\* as text or with a timezone is first reduced to the naive date
MembershipWindowAware(T) ==
    [start |-> ReplaceTime(EtLocalize(T - 1, 0), CUTOFF_HOUR, CUTOFF_MINUTE),
     end |-> ReplaceTime(EtLocalize(T, 0), CUTOFF_HOUR, CUTOFF_MINUTE)]

MembershipWindowCall(T, form) ==
    /\ win_date' = T
    /\ win_form' = form
    /\ win_start' = MembershipWindowAware(T).start
    /\ win_end' = MembershipWindowAware(T).end
    /\ UNCHANGED outsideWin

InitWin ==
    /\ win_date = 0
    /\ win_form = "naive"
    /\ win_start = EtLocalize(0, 0)
    /\ win_end = EtLocalize(0, 0)

NextWin ==
    /\ win_date = 0
    /\ \E T \in 1..MaxYearDay, form \in DateForms : MembershipWindowCall(T, form)

(***************************************************************************)
(* validate_cutoff_compliance                                              *)
(***************************************************************************)

NoReport ==
    [compliant |-> TRUE, total_items |-> 0, out_of_window |-> 0,
     window |-> << >>]

\* validate_cutoff_compliance with the window test ts_et < end
InWindow_OpenEnd(row_ts, T) ==
    /\ row_ts > MembershipWindow(T).start
    /\ row_ts < MembershipWindow(T).end

\* validate_cutoff_compliance: the value of in_window for a row
InWindow(row_ts, T) ==
    /\ row_ts > MembershipWindow(T).start
    /\ row_ts <= MembershipWindow(T).end

\* validate_cutoff_compliance: (~in_window).sum()
OutOfWindow(df, T) ==
    Cardinality({i \in 1..Len(df) : ~InWindow(df[i].ts, T)})

\* validate_cutoff_compliance(df, ts_column, date_T)
ValidateCutoffCompliance(df, T) ==
    /\ val_date' = T
    /\ val_df' = df
    /\ val_df_after' = df
    /\ val_report' =
           IF df = << >>
           THEN NoReport
           ELSE [compliant |-> OutOfWindow(df, T) = 0,
                 total_items |-> Len(df),
                 out_of_window |-> OutOfWindow(df, T),
                 window |-> <<MembershipWindow(T).start,
                              MembershipWindow(T).end>>]
    /\ UNCHANGED outsideVal

\* a frame is audited after apply_cutoff ran: its input or its output, for
\* any date
ValidateAfterCutoff ==
    /\ cut_date # 0
    /\ val_date = 0
    /\ \E df \in {cut_df, cut_result}, T \in 1..MaxTradingDay :
           ValidateCutoffCompliance(df, T)

InitVal ==
    /\ val_date = 0
    /\ val_df = << >>
    /\ val_df_after = << >>
    /\ val_report = NoReport

NextVal == NextCut \/ ValidateAfterCutoff

(***************************************************************************)
(* add_dedup_fields                                                        *)
(***************************************************************************)

\* bounds of the model: rows of the frame, and the largest row label
MaxDedupRows == 3
MaxLabel == 4

\* the index of a frame of n rows: labels in ascending order, as a default
\* RangeIndex or what is left of one after rows were dropped
IndexLabels(n) ==
    {l \in [1..n -> 0..MaxLabel] : \A i, j \in 1..n : i < j => l[i] < l[j]}

\* find_duplicates: the pairs (i, j), i < j, in the order of its two loops,
\* for a set close of pairs of positions whose hashes are within threshold
RECURSIVE PairsInOrder(_)
PairsInOrder(close) ==
    IF close = {} THEN << >>
    ELSE LET first == CHOOSE x \in close : \A y \in close :
                          \/ x[1] < y[1]
                          \/ x[1] = y[1] /\ x[2] <= y[2]
         IN  <<first>> \o PairsInOrder(close \ {first})

FindDuplicates(n, close) == PairsInOrder(close)

\* cluster_duplicates(pairs, n) as a value
ClusterMap(pairs, n) == ClusterFrom(Adjacency(pairs, n), n, 0, {}, << >>)

\* clusters.get(i, i)
ClustersGet(cl, i) == IF i \in DOMAIN cl THEN cl[i] ELSE i

\* add_dedup_fields: the two columns it adds to a frame whose index is
\* labels; ids[k] raises IndexError when k is not a position
DedupFields(labels, pairs) ==
    LET n == Len(labels)
        cl == ClusterMap(pairs, n)
    IN  IF \E p \in 1..n : ClustersGet(cl, labels[p]) >= n
        THEN [outcome |-> "raised", cluster_id |-> << >>, is_dupe |-> << >>]
        ELSE [outcome |-> "returned",
              cluster_id |-> [p \in 1..n |-> ClustersGet(cl, labels[p])],
              is_dupe |->
                  [p \in 1..n |-> ClustersGet(cl, labels[p]) # labels[p]]]

\* add_dedup_fields(df, text_column, id_column, threshold)
AddDedupFields(labels, close) ==
    LET pairs == FindDuplicates(Len(labels), close)
        fields == DedupFields(labels, pairs)
    IN  /\ ded_labels' = labels
        /\ ded_pairs' = pairs
        /\ ded_outcome' = fields.outcome
        /\ ded_cluster_id' = fields.cluster_id
        /\ ded_is_dupe' = fields.is_dupe
        /\ UNCHANGED outsideDed

InitDed ==
    /\ ded_outcome = "none"
    /\ ded_labels = << >>
    /\ ded_pairs = << >>
    /\ ded_cluster_id = << >>
    /\ ded_is_dupe = << >>

NextDed ==
    /\ ded_outcome = "none"
    /\ \E n \in 0..MaxDedupRows :
           \E labels \in IndexLabels(n),
              close \in SUBSET {x \in Items(n) \X Items(n) : x[1] < x[2]} :
               AddDedupFields(labels, close)

(***************************************************************************)
(* compute_novelty                                                         *)
(***************************************************************************)

\* bounds of the model: the texts scored, the reference texts, and how many
\* of the low bits of a fingerprint vary
MaxCurrent == 2
MaxReference == 2
MaxBits == 1

\* compute_simhash(text, num_bits=64); threshold: int = 64
NUM_BITS == 64
NOVELTY_THRESHOLD == 64

\* the fingerprints compute_simhash returns for the texts of the model: the
\* low bits in low, and every other bit set when high is true
Fingerprints == [high : BOOLEAN, low : SUBSET (0..(MaxBits - 1))]

\* hamming_distance(hash1, hash2): the number of bits that differ
HammingDistance(h1, h2) ==
    LET differing ==
            Cardinality((h1.low \ h2.low) \cup (h2.low \ h1.low))
    IN  IF h1.high = h2.high
        THEN differing
        ELSE (NUM_BITS - MaxBits) + (MaxBits - differing)

\* compute_novelty looking at the last reference fingerprint only
MinDistance_LastOnly(cur_hash, refs, k, min_distance) ==
    IF refs = << >> THEN min_distance
    ELSE HammingDistance(cur_hash, refs[Len(refs)])

\* compute_novelty: the loop over reference_hashes from the k-th on
RECURSIVE MinDistance(_, _, _, _)
MinDistance(cur_hash, refs, k, min_distance) ==
    IF k > Len(refs) THEN min_distance
    ELSE LET dist == HammingDistance(cur_hash, refs[k])
         IN  MinDistance(cur_hash, refs, k + 1,
                         IF dist < min_distance THEN dist ELSE min_distance)

\* compute_novelty: 1.0 - (1.0 - min_distance / 64.0) clipped to [0, 1], in
\* 64ths; every value involved is a multiple of 1/64 in [0, 1], which a
\* float represents exactly
NoveltyScore(min_distance) ==
    LET similarity == NUM_BITS - min_distance
        novelty == NUM_BITS - similarity
    IN  IF novelty < 0 THEN 0
        ELSE IF novelty > NUM_BITS THEN NUM_BITS
        ELSE novelty

\* compute_novelty: the returned array, threshold at its default
NoveltyArray(current, reference) ==
    IF current = << >> THEN << >>
    ELSE IF reference = << >>
    THEN [i \in 1..Len(current) |-> NUM_BITS]
    ELSE [i \in 1..Len(current) |->
             NoveltyScore(MinDistance(current[i], reference, 1,
                                      NOVELTY_THRESHOLD))]

\* compute_novelty(current_texts, reference_texts)
ComputeNovelty(current, reference) ==
    /\ nov_called' = TRUE
    /\ nov_current' = current
    /\ nov_reference' = reference
    /\ novelties' = NoveltyArray(current, reference)
    /\ UNCHANGED outsideNov

InitNov ==
    /\ nov_called = FALSE
    /\ nov_current = << >>
    /\ nov_reference = << >>
    /\ novelties = << >>

NextNov ==
    /\ ~nov_called
    /\ \E n \in 0..MaxCurrent, m \in 0..MaxReference :
           \E current \in [1..n -> Fingerprints],
              reference \in [1..m -> Fingerprints] :
               ComputeNovelty(current, reference)

(***************************************************************************)
(* dedupe_and_score_novelty                                                *)
(***************************************************************************)

\* bounds of the model: rows of the current frame and of the reference frame
MaxScoreRows == 2
MaxScoreRefs == 1

\* hamming_threshold: int = 3
HAMMING_THRESHOLD == 3

\* df['novelty'] = np.nan
NaN == -1

\* the index of the current frame: the default one, or what is left of it
\* after the first row of a larger frame was dropped
ScoreLabels(n) == {[p \in 1..n |-> p - 1], [p \in 1..n |-> p]}

\* find_duplicates: the pairs of positions whose simhashes are within
\* threshold
ClosePairs(hashes, threshold) ==
    {x \in Items(Len(hashes)) \X Items(Len(hashes)) :
        /\ x[1] < x[2]
        /\ HammingDistance(hashes[x[1] + 1], hashes[x[2] + 1]) <= threshold}

\* add_novelty_field that scores every row
NoveltyColumn_ScoreAll(is_dupe, hashes, reference) ==
    NoveltyArray(hashes, reference)

\* add_novelty_field: the novelty column of a frame with the given is_dupe
\* column, scored against the fingerprints in reference
NoveltyColumn(is_dupe, hashes, reference) ==
    LET non_dupes == SetToSeq({p \in 1..Len(is_dupe) : ~is_dupe[p]})
        current == [k \in 1..Len(non_dupes) |-> hashes[non_dupes[k]]]
        scores == NoveltyArray(current, reference)
    IN  [p \in 1..Len(is_dupe) |->
            IF is_dupe[p] THEN NaN
            ELSE scores[CHOOSE k \in 1..Len(non_dupes) : non_dupes[k] = p]]

\* add_novelty_field: reference_texts, the texts of the reference rows that
\* are not duplicates
ReferenceHashes(reference) ==
    LET kept == SelectSeq(reference, LAMBDA r : ~r.is_dupe)
    IN  [k \in 1..Len(kept) |-> kept[k].hash]

\* dedupe_and_score_novelty(current_df, text_column, id_column, reference_df)
DedupeAndScoreNovelty(labels, hashes, reference) ==
    LET pairs == FindDuplicates(Len(labels),
                                ClosePairs(hashes, HAMMING_THRESHOLD))
        fields == DedupFields(labels, pairs)
    IN  /\ sco_labels' = labels
        /\ sco_current' = hashes
        /\ sco_reference' = reference
        /\ sco_outcome' = fields.outcome
        /\ sco_is_dupe' = fields.is_dupe
        /\ sco_novelty' =
               IF fields.outcome = "raised" THEN << >>
               ELSE NoveltyColumn(fields.is_dupe, hashes,
                                  ReferenceHashes(reference))
        /\ UNCHANGED outsideSco

InitSco ==
    /\ sco_outcome = "none"
    /\ sco_labels = << >>
    /\ sco_current = << >>
    /\ sco_reference = << >>
    /\ sco_is_dupe = << >>
    /\ sco_novelty = << >>

NextSco ==
    /\ sco_outcome = "none"
    /\ \E n \in 0..MaxScoreRows, m \in 0..MaxScoreRefs :
           \E labels \in ScoreLabels(n), hashes \in [1..n -> Fingerprints],
              reference \in [1..m -> [hash : Fingerprints, is_dupe : BOOLEAN]] :
               DedupeAndScoreNovelty(labels, hashes, reference)

(***************************************************************************)
(* AlpacaNewsClient.connect when every connection attempt fails            *)
(***************************************************************************)

\* bound of the model: the largest max_reconnect_attempts
MaxReconnectChoice == 4

\* backoff_base_ms, backoff_max_ms, backoff_factor
BACKOFF_BASE_MS == 500
BACKOFF_MAX_MS == 10000
BACKOFF_FACTOR == 2

\* jitter = 0.5 + random.random(), as a percentage: from 50 to below 150
JitterChoices == {50, 100, 149}

\* how run_forever fails: it returns after on_error and on_close, or it
\* raises an Exception
FailureModes == {"returns", "raises"}

NoStatistics ==
    [messages_received |-> -1, messages_buffered |-> -1,
     messages_rejected |-> -1, flushes_completed |-> -1]

RECURSIVE Power(_, _)
Power(b, e) == IF e = 0 THEN 1 ELSE b * Power(b, e - 1)

\* _compute_backoff(attempt), in ms
ComputeBackoff(attempt, jitter) ==
    LET raw == BACKOFF_BASE_MS * Power(BACKOFF_FACTOR, attempt)
        delay_ms == IF raw < BACKOFF_MAX_MS THEN raw ELSE BACKOFF_MAX_MS
    IN  (delay_ms * jitter) \div 100

\* connect() that sleeps and counts after every failed attempt
ShouldRetry_UpToCap(attempt, max) == attempt < max

\* connect(): reconnect_attempt < max_reconnect_attempts - 1, the test after
\* run_forever returned and the same test in except Exception
ShouldRetry(attempt, max) == attempt < max - 1

\* ingest_news creates the client and calls connect()
ConnStart(ma) ==
    /\ conn_pc = "none"
    /\ conn_pc' = "connecting"
    /\ conn_max' = ma
    /\ UNCHANGED <<conn_attempt, conn_log, conn_delays, conn_result,
                   outsideConn>>

\* one pass of the while loop of connect(): run_forever fails in either
\* mode, and connect() sleeps and counts the attempt, or breaks
ConnAttemptFails(mode, jitter) ==
    /\ conn_pc = "connecting"
    /\ conn_attempt < conn_max
    /\ IF ShouldRetry(conn_attempt, conn_max)
       THEN /\ conn_log' = conn_log \o <<"try", "sleep">>
            /\ conn_delays' =
                   Append(conn_delays, ComputeBackoff(conn_attempt, jitter))
            /\ conn_attempt' = conn_attempt + 1
            /\ UNCHANGED conn_pc
       ELSE /\ conn_log' = Append(conn_log, "try")
            /\ conn_pc' = "returned"
            /\ UNCHANGED <<conn_delays, conn_attempt>>
    /\ UNCHANGED <<conn_max, conn_result, outsideConn>>

\* the condition of the while loop is false
ConnLoopEnds ==
    /\ conn_pc = "connecting"
    /\ ~(conn_attempt < conn_max)
    /\ conn_pc' = "returned"
    /\ UNCHANGED <<conn_max, conn_attempt, conn_log, conn_delays, conn_result,
                   outsideConn>>

\* ingest_news: finally client.close(), whose flush finds the buffer empty,
\* and the returned statistics
ConnClose ==
    /\ conn_pc = "returned"
    /\ conn_pc' = "closed"
    /\ conn_result' =
           [messages_received |-> messages_received,
            messages_buffered |-> messages_buffered,
            messages_rejected |-> messages_rejected,
            flushes_completed |-> flushes_completed]
    /\ UNCHANGED <<conn_max, conn_attempt, conn_log, conn_delays, outsideConn>>

InitConn ==
    /\ conn_pc = "none"
    /\ conn_max = 0
    /\ conn_attempt = 0
    /\ conn_log = << >>
    /\ conn_delays = << >>
    /\ conn_result = NoStatistics

NextConn ==
    \/ \E ma \in 0..MaxReconnectChoice : ConnStart(ma)
    \/ \E mode \in FailureModes, jitter \in JitterChoices :
           ConnAttemptFails(mode, jitter)
    \/ ConnLoopEnds
    \/ ConnClose

(***************************************************************************)
(* batch_score_gemini                                                      *)
(***************************************************************************)

\* bounds of the model: the items to score and the largest batch_size
MaxScoreItems == 3
MaxBatchSize == 2

\* how call_gemini_api ends: it returns one result per item of the batch, or
\* it raises (HTTPError, ValueError, RuntimeError after its retries)
ApiOutcomes == {"ok", "raises"}

\* total_batches = (len(items) + batch_size - 1) // batch_size
TotalBatches == (sb_items + sb_batch_size - 1) \div sb_batch_size

\* items.iloc[start_idx:end_idx] of batch b, as item positions
BatchItems(b) ==
    LET start_idx == b * sb_batch_size
        stop == (b + 1) * sb_batch_size
        end_idx == IF stop < sb_items THEN stop ELSE sb_items
    IN  [k \in 1..(end_idx - start_idx) |-> start_idx + k]

\* an except branch that appends its neutral results twice
NeutralFill_Twice(batch_items) ==
    [k \in 1..(2 * Len(batch_items)) |->
        [id |-> batch_items[((k - 1) % Len(batch_items)) + 1],
         kind |-> "neutral"]]

\* the except branches: one neutral result per item of the batch
NeutralFill(batch_items) ==
    [k \in 1..Len(batch_items) |-> [id |-> batch_items[k], kind |-> "neutral"]]

\* response["results"] of a call that returned: parse_gemini_response
\* accepted it, one result for each id of the batch
ScoredResults(batch_items) ==
    [k \in 1..Len(batch_items) |-> [id |-> batch_items[k], kind |-> "scored"]]

\* batch_score_gemini up to its loop: the key manager is created
BatchStart(n_items, bs, nk, s, q) ==
    /\ sb_pc = "none"
    /\ ConstructCall(nk, s, q)
    /\ sb_pc' = "running"
    /\ sb_items' = n_items
    /\ sb_batch_size' = bs
    /\ UNCHANGED <<sb_batch_idx, sb_results, sb_exhausted, sb_output,
                   outsideSb>>

\* one pass of the loop over the batches: get_next_key, call_gemini_api and
\* record_usage(requests=1, tokens=0), or one of the except branches
ScoreBatch(api) ==
    /\ sb_pc = "running"
    /\ sb_batch_idx < TotalBatches
    /\ LET req == ResetCounter(requests_today, last_reset_date)
           sel == SelectKey(req)
           batch_items == BatchItems(sb_batch_idx)
       IN  /\ tokens_today' = ResetCounter(tokens_today, last_reset_date)
           /\ last_reset_date' = ResetDates(last_reset_date)
           /\ current_index' = sel.index
           /\ checked' = sel.checked
           /\ returned' = sel.key
           /\ IF sel.key = Exhausted
              THEN /\ requests_today' = req
                   /\ last_call' = "get_next_key"
                   /\ sb_results' = sb_results \o NeutralFill(batch_items)
                   /\ sb_exhausted' = sb_exhausted \cup {sb_batch_idx}
              ELSE IF api = "ok"
              THEN /\ requests_today' = [req EXCEPT ![sel.key] = @ + 1]
                   /\ last_call' = "record_usage"
                   /\ sb_results' = sb_results \o ScoredResults(batch_items)
                   /\ UNCHANGED sb_exhausted
              ELSE /\ requests_today' = req
                   /\ last_call' = "get_next_key"
                   /\ sb_results' = sb_results \o NeutralFill(batch_items)
                   /\ UNCHANGED sb_exhausted
    /\ sb_batch_idx' = sb_batch_idx + 1
    /\ UNCHANGED <<num_keys, strategy, quota_rpd, today, sb_pc, sb_items,
                   sb_batch_size, sb_output, outsideSb>>

\* after the loop: results are merged into the items on the id, how="left",
\* and missing values are filled with neutral; with no result at all the
\* frame of results has no id column and merge raises KeyError
BatchFinish ==
    /\ sb_pc = "running"
    /\ sb_batch_idx >= TotalBatches
    /\ IF sb_results = << >>
       THEN /\ sb_pc' = "raised"
            /\ UNCHANGED sb_output
       ELSE /\ sb_pc' = "done"
            /\ sb_output' =
                   [i \in 1..sb_items |->
                       LET rows == SelectSeq(sb_results, LAMBDA r : r.id = i)
                       IN  IF rows = << >> THEN <<"neutral">>
                           ELSE [k \in 1..Len(rows) |-> rows[k].kind]]
    /\ UNCHANGED <<rotVars, sb_items, sb_batch_size, sb_batch_idx, sb_results,
                   sb_exhausted, outsideSb>>

InitSb ==
    /\ sb_pc = "none"
    /\ sb_items = 0
    /\ sb_batch_size = 1
    /\ sb_batch_idx = 0
    /\ sb_results = << >>
    /\ sb_exhausted = {}
    /\ sb_output = << >>

NextSb ==
    \/ \E n_items \in 0..MaxScoreItems, bs \in 1..MaxBatchSize,
          nk \in 1..MaxKeys, s \in RotationStrategy, q \in QuotaChoices :
           BatchStart(n_items, bs, nk, s, q)
    \/ \E api \in ApiOutcomes : ScoreBatch(api)
    \/ DayRollover
    \/ BatchFinish

(***************************************************************************)
(* The start of a backfill run, whatever the checkpoint file holds         *)
(***************************************************************************)

\* what the checkpoint file of the run id can be: absent, not JSON (empty or
\* cut short), a JSON object without the counters, one with the counters and
\* no last_date, or what save_checkpoint writes
CheckpointFiles ==
    [kind : {"missing", "not_json", "no_counters", "no_last_date"},
     last_date : {0}]
    \cup [kind : {"valid"}, last_date : BackfillDays]

\* load_checkpoint and the lines that read the loaded dict: the resume date,
\* 0 for none, or the exception that ends the run
LoadCheckpoint(file, rsm) ==
    IF ~rsm \/ file.kind = "missing"
    THEN [raised |-> "", resume_date |-> 0]
    ELSE IF file.kind = "not_json"
    THEN [raised |-> "JSONDecodeError", resume_date |-> 0]
    ELSE IF file.kind \in {"no_counters", "no_last_date"}
    THEN [raised |-> "KeyError", resume_date |-> 0]
    ELSE [raised |-> "", resume_date |-> file.last_date]

\* backfill_news_date_range from the pre-scan to the first day of the loop
BackfillBegin(file, rst, rsm, partitions) ==
    /\ ck_file' = file
    /\ ck_reset' = rst
    /\ ck_resume' = rsm
    /\ ck_partitions' = partitions
    /\ LET existing == IF rst THEN {} ELSE partitions
           ck == LoadCheckpoint(file, rsm)
           start_dt == IF ck.resume_date > 1 THEN ck.resume_date ELSE 1
       IN  IF ck.raised # ""
           THEN /\ ck_outcome' = "crashed"
                /\ ck_first_day' = 0
           ELSE /\ ck_outcome' = "started"
                /\ ck_first_day' = NextFetchDay(start_dt, existing)
    /\ UNCHANGED outsideCk

InitCk ==
    /\ ck_outcome = "none"
    /\ ck_file = [kind |-> "missing", last_date |-> 0]
    /\ ck_resume = FALSE
    /\ ck_reset = FALSE
    /\ ck_partitions = {}
    /\ ck_first_day = 0

NextCk ==
    /\ ck_outcome = "none"
    /\ \E file \in CheckpointFiles, rst \in BOOLEAN, rsm \in BOOLEAN,
          partitions \in SUBSET BackfillDays :
           BackfillBegin(file, rst, rsm, partitions)

(***************************************************************************)
(* Validation of a streamed news message                                   *)
(***************************************************************************)

\* the tolerance of validate_news_message for clock skew, in seconds
CLOCK_SKEW_SEC == 30

\* published_at of a message with neither created_at nor updated_at
NoTimestamp == -100000

\* published_at in seconds after received_at, which is the origin of time
PublishedChoices == {NoTimestamp, -60, 0, 30, 31, 32}

\* the seconds between datetime.now() in _on_message and utcnow() in
\* validate_news_message
UtcNowDelays == {0, 1}

\* the raw news messages: the id and the date of the record they become,
\* whether they have a headline, and their created_at
RawNewsMessages ==
    [id : MsgIds, date : Dates, headline : BOOLEAN,
     created_at : PublishedChoices]

\* normalize_alpaca_message: the fields validate_news_message reads
NormalizedFields(raw) ==
    [msg_id |-> raw.id, date |-> raw.date, headline |-> raw.headline,
     published_at |-> raw.created_at, received_at |-> 0]

\* pub_ts > ts + pd.Timedelta(seconds=30)
PublishedAfter(pub_ts, ts) == pub_ts > ts + CLOCK_SKEW_SEC

\* validate_news_message: the list of errors, utc_now being what utcnow()
\* returns
ValidateNewsMessage(msg, utc_now) ==
    LET has_pub == msg.published_at # NoTimestamp
    IN  (IF ~msg.headline THEN <<"Missing headline">> ELSE << >>)
        \o (IF ~has_pub THEN <<"Missing published_at">> ELSE << >>)
        \o (IF has_pub /\ PublishedAfter(msg.published_at, msg.received_at)
            THEN <<"published_at > received_at">> ELSE << >>)
        \o (IF has_pub /\ PublishedAfter(msg.published_at, utc_now)
            THEN <<"published_at is in the future">> ELSE << >>)

\* _on_message for a raw news message: normalize, validate, then the rejects
\* branch, which builds reject_path and writes nothing, or the buffer
OnNewsMessage(raw, delay) ==
    LET normalized == NormalizedFields(raw)
        errors == ValidateNewsMessage(normalized, normalized.received_at + delay)
    IN  /\ OnMessageCall([T |-> "n", id |-> normalized.msg_id,
                          date |-> normalized.date, valid |-> errors = << >>])
        /\ last_errors' = errors
        /\ UNCHANGED <<rejects_file, outsideRej>>

InitRej ==
    /\ rejects_file = << >>
    /\ last_errors = << >>

NextRej ==
    \/ \E fs \in 1..MaxFlushSize, fi \in FlushIntervalChoices,
          ma \in AttemptChoices : ClientInit(fs, fi, ma)
    \/ OnOpen
    \/ \E raw \in RawNewsMessages, delay \in UtcNowDelays :
          OnNewsMessage(raw, delay)

(***************************************************************************)
(* Social backfill with its periodic checkpoint                            *)
(***************************************************************************)

\* bounds of the model: the dates of the range and the subreddits
NumSocialDays == 51
NumSubreddits == 2

\* CHECKPOINT_INTERVAL of social_arctic.py
SOCIAL_CHECKPOINT_INTERVAL == 100

\* the (date, subreddit) pairs in the order of the two for loops
NumSubranges == NumSocialDays * NumSubreddits
DateOf(k) == ((k - 1) \div NumSubreddits) + 1
SubredditOf(k) == (k - 1) % NumSubreddits

\* the key f"{date_str}_{subreddit}" of a pair
SubrangeKey(k) == <<DateOf(k), SubredditOf(k)>>

\* checkpoint = None
NoSocialCheckpoint ==
    [exists |-> FALSE, total_posts |-> 0, total_requests |-> 0,
     current_date |-> 0, completed_dates |-> << >>]

\* the checkpoint files a run may find under its name
SocialCheckpointFiles ==
    {NoSocialCheckpoint}
    \cup {[exists |-> TRUE, total_posts |-> 0, total_requests |-> r,
           current_date |-> d,
           completed_dates |->
               IF c THEN <<SubrangeKey((d - 1) * NumSubreddits + 1)>>
               ELSE << >>] :
             r \in {0, SOCIAL_CHECKPOINT_INTERVAL - 1},
             d \in {1, NumSocialDays},
             c \in BOOLEAN}

\* the two for loops with their skips: the first pair from rank k on that is
\* fetched, or NumSubranges + 1
RECURSIVE NextSubrange(_, _)
NextSubrange(k, ck) ==
    IF k > NumSubranges THEN k
    ELSE IF ck.exists /\ DateOf(k) < ck.current_date
    THEN NextSubrange(k + 1, ck)
    ELSE IF ck.exists
            /\ \E i \in 1..Len(ck.completed_dates) :
                   ck.completed_dates[i] = SubrangeKey(k)
    THEN NextSubrange(k + 1, ck)
    ELSE k

\* the loops go on from rank k: to the next pair, or to the end of the run,
\* which removes the checkpoint file
SocialGoTo(k, file) ==
    IF k <= NumSubranges
    THEN /\ spc' = "running"
         /\ subrange' = k
         /\ social_checkpoint_file' = file
    ELSE /\ spc' = "done"
         /\ subrange' = k
         /\ social_checkpoint_file' = NoSocialCheckpoint

\* backfill_social up to its first request
SocialStart(resume, file) ==
    /\ spc = "idle"
    /\ LET ck == IF resume /\ file.exists THEN file ELSE NoSocialCheckpoint
       IN  /\ social_checkpoint' = ck
           /\ total_posts' = ck.total_posts
           /\ total_requests' = ck.total_requests
           /\ SocialGoTo(NextSubrange(1, ck), file)
    /\ UNCHANGED outsideSoc

\* one pass of the inner loop: fetch_posts_for_day returns, matched of its
\* posts are kept and written, and the checkpoint is saved when the request
\* count is a multiple of the interval; checkpoint.get on None raises
\* AttributeError
SocialFetch(matched) ==
    /\ spc = "running"
    /\ total_requests' = total_requests + 1
    /\ total_posts' = total_posts + matched
    /\ IF total_requests' % SOCIAL_CHECKPOINT_INTERVAL # 0
       THEN SocialGoTo(NextSubrange(subrange + 1, social_checkpoint),
                       social_checkpoint_file)
       ELSE IF ~social_checkpoint.exists
       THEN /\ spc' = "crashed"
            /\ UNCHANGED <<subrange, social_checkpoint_file>>
       ELSE SocialGoTo(NextSubrange(subrange + 1, social_checkpoint),
                       [exists |-> TRUE,
                        total_posts |-> total_posts',
                        total_requests |-> total_requests',
                        current_date |-> DateOf(subrange),
                        completed_dates |->
                            Append(social_checkpoint.completed_dates,
                                   SubrangeKey(subrange))])
    /\ UNCHANGED <<social_checkpoint, outsideSoc>>

\* fetch_posts_for_day raises (an HTTP error other than 400, a timeout):
\* nothing catches it
SocialFetchRaises ==
    /\ spc = "running"
    /\ spc' = "crashed"
    /\ UNCHANGED <<social_checkpoint, social_checkpoint_file, total_posts,
                   total_requests, subrange, outsideSoc>>

InitSoc ==
    /\ spc = "idle"
    /\ social_checkpoint = NoSocialCheckpoint
    /\ social_checkpoint_file = NoSocialCheckpoint
    /\ total_posts = 0
    /\ total_requests = 0
    /\ subrange = 0

NextSoc ==
    \/ \E resume \in BOOLEAN, file \in SocialCheckpointFiles :
           SocialStart(resume, file)
    \/ \E matched \in {0, 1} : SocialFetch(matched)
    \/ SocialFetchRaises

(***************************************************************************)
(* Specifications                                                          *)
(***************************************************************************)

Init ==
    /\ InitRot /\ InitStream /\ InitCut /\ InitClu /\ InitBackfill
    /\ InitPace /\ InitNorm /\ InitWin
    /\ InitVal /\ InitDed /\ InitNov /\ InitSco /\ InitConn /\ InitSb
    /\ InitCk /\ InitRej /\ InitSoc

\* one manager, one caller, the calendar moving
SpecRot == Init /\ [][NextRot]_vars

\* several workers sharing one manager within one reset period
SpecWorkers == Init /\ [][NextWorkers]_vars

\* one streaming client, its server and its storage
SpecStream == Init /\ [][NextStream]_vars

\* the streaming client while time goes on: the callbacks run only when the
\* server sends or the connection closes, and nothing obliges either
SpecStreamLive == Init /\ [][NextStream]_vars /\ WF_vars(Tick)

\* apply_cutoff on every small frame
SpecCut == Init /\ [][NextCut]_vars

\* cluster_duplicates on every small list of pairs
SpecClu == Init /\ [][NextClu]_vars

\* backfill runs of a few requests each
SpecBackfill == Init /\ [][NextBackfill]_vars

\* backfill runs long enough to save a periodic checkpoint, none of whose
\* requests fails
SpecBackfillLong == Init /\ [][NextBackfillLong]_vars

\* backfill runs long enough to save a periodic checkpoint, some of whose
\* days are given up at the cap of 429 answers
SpecBackfillLong429 == Init /\ [][NextBackfillLong429]_vars

\* backfill runs every request of which is answered sooner or later:
\* fetch_news_page returns or raises within its timeout
SpecBackfillLive ==
    Init /\ [][NextBackfillLive]_vars /\ WF_vars(RequestAnswered)

\* the request loop of a backfill run against the clock
SpecPace == Init /\ [][NextPace]_vars

\* one provider message through both normalizers
SpecNorm == Init /\ [][NextNorm]_vars

\* membership_window on every day of 2024
SpecWin == Init /\ [][NextWin]_vars

\* apply_cutoff, then validate_cutoff_compliance on its input or its output
SpecVal == Init /\ [][NextVal]_vars

\* add_dedup_fields on every small frame, whatever its index
SpecDed == Init /\ [][NextDed]_vars

\* compute_novelty on every small list of current and reference fingerprints
SpecNov == Init /\ [][NextNov]_vars

\* dedupe_and_score_novelty on every small frame and reference frame
SpecSco == Init /\ [][NextSco]_vars

\* an ingest_news run none of whose connection attempts succeeds
SpecConn == Init /\ [][NextConn]_vars

\* one batch_score_gemini run with its key manager, the calendar moving
SpecSb == Init /\ [][NextSb]_vars

\* the start of a backfill run on every checkpoint file and storage
SpecCk == Init /\ [][NextCk]_vars

\* one streaming client whose news messages go through validate_news_message
SpecRej == Init /\ [][NextRej]_vars

\* one backfill_social run over a range long enough for a periodic checkpoint
SpecSoc == Init /\ [][NextSoc]_vars

Next ==
    \/ NextRot \/ NextWorkers \/ NextStream \/ NextCut \/ NextClu
    \/ NextBackfill \/ NextPace \/ NextNorm \/ NextWin
    \/ NextVal \/ NextDed \/ NextNov \/ NextSco \/ NextConn \/ NextSb
    \/ NextCk \/ NextRej \/ NextSoc
Spec == Init /\ [][Next]_vars

(***************************************************************************)
(* Claims                                                                  *)
(***************************************************************************)

\* no key is waiting for a reset that a date rollover caused
SameResetPeriod == \A k \in KeyIndices : last_reset_date[k] \in {NoDate, today}

\* C1: with a daily quota configured and no date rollover pending,
\* get_next_key raises the exhaustion error if and only if every loaded
\* credential has requests_today >= floor(quota_rpd * safety_margin), and
\* otherwise returns a credential whose requests_today is below that limit.
C1_ExhaustedIffAllAtLimit ==
    [][(GetNextKey /\ quota_rpd # 0 /\ SameResetPeriod) =>
         /\ (returned' = Exhausted) <=>
                (\A k \in KeyIndices : requests_today[k] >= QuotaLimit)
         /\ returned' # Exhausted => requests_today'[returned'] < QuotaLimit]_vars

\* C2: with workers that each do get_next_key and then record_usage(1), no
\* credential's requests_today ever exceeds floor(quota_rpd * safety_margin).
C2_NoKeyOverIssued ==
    quota_rpd # 0 => \A k \in KeyIndices : requests_today[k] <= QuotaLimit

\* C4: a flush whose storage write fails loses no record: every record the
\* buffer accepted is still in the buffer or is in storage.
C4_FailedFlushKeepsRecords ==
    \A i \in 1..Len(accepted_log) :
        \/ accepted_log[i].msg_id \in IdsOf(buffer)
        \/ accepted_log[i].msg_id \in IdsOf(news_files[accepted_log[i].date])

\* C5: NewsBuffer.add accepts a msg_id at most once over the buffer's
\* lifetime, so the buffer never holds two records with the same msg_id.
C5_IdAcceptedOnce ==
    /\ \A i, j \in 1..Len(accepted_log) :
           accepted_log[i].msg_id = accepted_log[j].msg_id => i = j
    /\ \A i, j \in 1..Len(buffer) :
           buffer[i].msg_id = buffer[j].msg_id => i = j

\* an id that was flushed out of the buffer is delivered again and refused
C5_Witness ==
    /\ last_add = "duplicate"
    /\ flushes_completed > 0
    /\ \E id \in seen_ids : id \notin IdsOf(buffer)
    /\ connects > 1

\* C9: subscribed implies authenticated and authenticated implies connected,
\* whatever order the server sends its messages in.
C9_HandshakeOrder ==
    /\ subscribed => authenticated
    /\ authenticated => connected

\* C10: after any inbound message is handled, the buffer holds fewer than
\* flush_size records.
C10_BufferBelowFlushSize ==
    cpc # "none" => Len(buffer) < flush_size

\* a message filled the buffer to flush_size and the flush emptied it
C10_Witness ==
    /\ flush_trigger = "size"
    /\ flush_size > 1
    /\ last_add = "added"
    /\ buffer = << >>

\* C7 as stated: the result is a subset of the input, every retained
\* timestamp is in (start, end], and none exceeds end - safety_lag.
C7_CutoffWithLagAlways ==
    cut_date # 0 =>
        \A i \in 1..Len(cut_result) :
            /\ \E j \in 1..Len(cut_df) : cut_df[j] = cut_result[i]
            /\ cut_result[i].ts > MembershipWindow(cut_date).start
            /\ cut_result[i].ts <= MembershipWindow(cut_date).end
            /\ cut_result[i].ts <= MembershipWindow(cut_date).end - cut_lag

\* C7, amended: the result is a subset of the input (its rows, in order,
\* each at most once), every retained timestamp is in (start, end], and
\* when training is true none exceeds end - safety_lag.
C7_CutoffWithLagWhenTraining ==
    cut_date # 0 =>
        /\ \A i \in 1..Len(cut_result) :
               /\ \E j \in 1..Len(cut_df) : cut_df[j] = cut_result[i]
               /\ cut_result[i].ts > MembershipWindow(cut_date).start
               /\ cut_result[i].ts <= MembershipWindow(cut_date).end
               /\ cut_training =>
                      cut_result[i].ts <= MembershipWindow(cut_date).end - cut_lag
        /\ \A i, j \in 1..Len(cut_result) :
               i < j => cut_result[i].id < cut_result[j].id

\* a training call that keeps one row and drops another because of the lag
C7_Witness ==
    /\ cut_date # 0
    /\ cut_training
    /\ cut_lag > 0
    /\ Len(cut_result) = 1
    /\ \E j \in 1..Len(cut_df) :
           /\ cut_df[j].ts > MembershipWindow(cut_date).end - cut_lag
           /\ cut_df[j].ts <= MembershipWindow(cut_date).end

\* the items connected to item i by duplicate pairs, by closure
RECURSIVE Reachable(_, _)
Reachable(S, pairs) ==
    LET more == S \cup {pairs[k][2] : k \in {k \in 1..Len(pairs) : pairs[k][1] \in S}}
                  \cup {pairs[k][1] : k \in {k \in 1..Len(pairs) : pairs[k][2] \in S}}
    IN  IF more = S THEN S ELSE Reachable(more, pairs)

\* C8: cluster_duplicates gives every item 0..n-1 exactly one leader, the
\* minimum index reachable from it through duplicate pairs, so two items
\* have the same leader exactly when they are connected.
C8_LeaderIsMinReachable ==
    clu_n >= 0 =>
        /\ DOMAIN clusters = Items(clu_n)
        /\ \A i \in Items(clu_n) :
               LET reach == Reachable({i}, clu_pairs)
               IN  /\ clusters[i] \in reach
                   /\ \A j \in reach : clusters[i] <= j
        /\ \A i, j \in Items(clu_n) :
               clusters[i] = clusters[j] <=> j \in Reachable({i}, clu_pairs)

\* an item whose leader is reached only through another item
C8_Witness ==
    /\ clu_n >= 3
    /\ \E i \in Items(clu_n) :
           /\ clusters[i] # i
           /\ \A k \in 1..Len(clu_pairs) :
                  clu_pairs[k] \notin {<<i, clusters[i]>>, <<clusters[i], i>>}

\* C3: a run resumed from a checkpoint fetches every day of the range whose
\* articles were not in storage when it began, and does not fetch again a
\* day that was.
C3_ResumeSkipsNoIncompleteDay ==
    (bpc = "done" /\ loaded) =>
        \A d \in BackfillDays :
            /\ d \notin persisted_before => d \in requested
            /\ (d \in persisted_before /\ ~reset) => d \notin requested

\* C6: with reset=False a run issues page requests for a day of the range
\* if and only if the day is not among the dates of the pre-scan.
C6_FetchedIffNotExisting ==
    (bpc \in {"done", "crashed"} /\ ~reset) =>
        requested = BackfillDays \ existing_dates

\* the records in storage, date by date
Persisted(files) == UNION {IdsOf(files[d]) : d \in Dates}

\* C11: while the client has received only valid messages with pairwise
\* distinct ids and no time-based or close-time flush has happened, exactly
\* floor(n / flush_size) flushes have completed and the records they
\* persisted are the first floor(n / flush_size) * flush_size accepted ones.
C11_OneFlushPerFlushSize ==
    (/\ cpc = "running"
     /\ connects = 1
     /\ now = 0
     /\ messages_rejected = 0
     /\ messages_received = messages_buffered) =>
        /\ flushes_completed = messages_buffered \div flush_size
        /\ Persisted(news_files) =
               {accepted_log[i].msg_id :
                    i \in 1..((messages_buffered \div flush_size) * flush_size)}
        /\ \A d \in Dates :
               \A i, j \in 1..Len(news_files[d]) :
                   i < j =>
                       \E a, b \in 1..Len(accepted_log) :
                           /\ a < b
                           /\ accepted_log[a] = news_files[d][i]
                           /\ accepted_log[b] = news_files[d][j]

\* C12: a page is requested at most MAX_RETRY_ATTEMPTS times while it is
\* answered with 429, the backoff slept after the k-th 429 of a page is
\* 60 * 2^(k-1) seconds, and the 429 that reaches the cap makes the run give
\* up the day and go on with the next day of the range (or end the run).
C12_RetryCapThenNextDay ==
    /\ [](bpc = "running" =>
            /\ retry_count < MAX_RETRY_ATTEMPTS
            /\ retry_delay = RETRY_DELAY_START * 2 ^ retry_count
            /\ retry_count > 0 =>
                   backoff = RETRY_DELAY_START * 2 ^ (retry_count - 1))
    /\ [][(Fetch429 /\ retry_count = MAX_RETRY_ATTEMPTS - 1) =>
            /\ current_date' > current_date
            /\ current_date' = NextFetchDay(current_date + 1, existing_dates)
            /\ bpc' = "running" <=> current_date' < EndDay
            /\ current_date \in abandoned']_vars

\* a day was given up after MAX_RETRY_ATTEMPTS answers of 429 and the run is
\* requesting a later day
C12_Witness ==
    /\ bpc = "running"
    /\ abandoned # {}
    /\ \A d \in abandoned : d < current_date
    /\ current_date \in requested

\* C13: a page request that fails with a timeout, a connection error or a
\* non-429 HTTP error does not abort the run: the request is tried again
\* (same day, same page, one more attempt counted), or the day is given up
\* and the run goes on with a later day or ends normally.
C13_ErrorRetriedThenDayAbandoned ==
    [][FetchError =>
         /\ bpc' # "crashed"
         /\ \/ /\ retry_count' = retry_count + 1
               /\ current_date' = current_date
               /\ page_token' = page_token
            \/ current_date' > current_date]_vars

C15_FinalFlushPersistsBuffer ==
    [][(Interrupt \/ Close) =>
         /\ buffer' = << >>
         /\ IdsOf(buffer) \subseteq Persisted(news_files')]_vars

\* C16: a user-requested stop of a backfill run writes a checkpoint with the
\* current day and the cumulative counters, and the days whose articles the
\* run holds in memory are written to storage.
C16_StopWritesCheckpoint ==
    [][BackfillInterrupt =>
         /\ checkpoint'.exists
         /\ checkpoint'.last_date = current_date
         /\ checkpoint'.requests_made = requests_made
         /\ checkpoint'.articles_fetched = articles_fetched
         /\ current_articles \subseteq backfill_files']_vars

\* the keys whose last reset was on an earlier day
ResetDue == {k \in KeyIndices : last_reset_date[k] \notin {NoDate, today}}

\* C17 as stated: the first get_next_key or get_stats call after the date
\* advanced past a key's last_reset_date sets the key's requests_today and
\* tokens_today to 0 and its last_reset_date to the new date, and the key is
\* available again.
C17_RolloverResetsAndFrees ==
    [][(GetNextKey \/ GetStats) =>
         \A k \in ResetDue :
             /\ requests_today'[k] = 0
             /\ tokens_today'[k] = 0
             /\ last_reset_date'[k] = today
             /\ IsKeyAvailable(requests_today', k)]_vars

\* C17 as the code has it: the counters and the date are reset as stated, and
\* the key is available again when floor(quota_rpd * safety_margin) >= 1.
C17_RolloverResets ==
    [][(GetNextKey \/ GetStats) =>
         \A k \in ResetDue :
             /\ requests_today'[k] = 0
             /\ tokens_today'[k] = 0
             /\ last_reset_date'[k] = today
             /\ (quota_rpd = 0 \/ QuotaLimit >= 1) =>
                    IsKeyAvailable(requests_today', k)]_vars

\* every key had reached its limit when get_next_key raised the exhaustion
\* error; after the date rollover get_stats reset the keys, which are
\* available again
C17_Witness ==
    /\ quota_rpd # 0
    /\ QuotaLimit >= 1
    /\ returned = Exhausted
    /\ last_call = "get_stats"
    /\ today > 1
    /\ \A k \in KeyIndices :
           /\ last_reset_date[k] = today
           /\ requests_today[k] = 0
           /\ IsKeyAvailable(requests_today, k)

\* the keys from the cursor c on in cyclic order, before the key k
CyclicBefore(c, k) ==
    {(c + j) % num_keys : j \in 0..(((k - c) % num_keys) - 1)}

\* C18: under round_robin get_next_key returns the first key at or after
\* the cursor, in cyclic order, that is available on the reset counters, and
\* leaves the cursor just past it; it raises the exhaustion error only after
\* it checked every key exactly once, in cyclic order from the cursor.
C18_RoundRobinFirstAvailable ==
    [][(GetNextKey /\ strategy = "round_robin") =>
         /\ returned' # Exhausted =>
                /\ returned' \in KeyIndices
                /\ IsKeyAvailable(requests_today', returned')
                /\ \A k \in CyclicBefore(current_index, returned') :
                       ~IsKeyAvailable(requests_today', k)
                /\ current_index' = (returned' + 1) % num_keys
         /\ returned' = Exhausted =>
                /\ \A k \in KeyIndices : ~IsKeyAvailable(requests_today', k)
                /\ Len(checked') = num_keys
                /\ \A i \in 1..num_keys :
                       checked'[i] = (current_index + i - 1) % num_keys
         /\ \A i, j \in 1..Len(checked') : checked'[i] = checked'[j] => i = j]_vars

\* get_next_key skipped a key at its limit and returned the next one
C18_Witness ==
    /\ strategy = "round_robin"
    /\ last_call = "get_next_key"
    /\ returned \in KeyIndices
    /\ Len(checked) >= 2
    /\ ~IsKeyAvailable(requests_today, checked[1])
    /\ current_index = (returned + 1) % num_keys

\* C19: a flush for a date whose news.parquet already exists appends and
\* deduplicates by id: the write does not fail, every record stored before
\* is still stored, the records that left the buffer are stored, and a
\* partition holds one record per id.
C19_AppendThenDeduplicate ==
    [][/\ ~flush_raised'
       /\ \A d \in Dates :
              /\ \A i \in 1..Len(news_files[d]) :
                     \E j \in 1..Len(news_files'[d]) :
                         news_files'[d][j] = news_files[d][i]
              /\ \A i, j \in 1..Len(news_files'[d]) :
                     news_files'[d][i].msg_id = news_files'[d][j].msg_id => i = j
       /\ (IdsOf(buffer) \ IdsOf(buffer')) \subseteq Persisted(news_files')]_vars

\* C20: for the same provider message the streaming normalizer and the
\* backfill normalizer give the same msg_id, with the provider id and with
\* the content hash, and each gives the same msg_id when called again.
C20_SameMsgId ==
    norm_called =>
        /\ stream_msg_id = rest_msg_id
        /\ stream_msg_id_2 = stream_msg_id
        /\ rest_msg_id_2 = rest_msg_id

\* C21 (as stated): for every date T the window starts at the cutoff time of
\* day T-1, ends at the cutoff time of day T, and lasts exactly 24 hours
C21_WindowLasts24Hours ==
    win_date # 0 =>
        /\ win_start.day = win_date - 1
        /\ win_end.day = win_date
        /\ win_start.minute = CUTOFF_HOUR * MINUTES_PER_HOUR + CUTOFF_MINUTE
        /\ win_end.minute = CUTOFF_HOUR * MINUTES_PER_HOUR + CUTOFF_MINUTE
        /\ Instant(win_end) - Instant(win_start) = MINUTES_PER_DAY

\* C21 (amended): the window starts at 15:30 exchange-local time of day T-1
\* and ends at 15:30 exchange-local time of day T; it lasts 24 hours, except
\* 23 hours when the clock is set forward and 25 hours when it is set back
\* between the two cutoffs
C21_WindowAtCutoffs ==
    win_date # 0 =>
        /\ win_start.day = win_date - 1
        /\ win_end.day = win_date
        /\ win_start.minute = CUTOFF_HOUR * MINUTES_PER_HOUR + CUTOFF_MINUTE
        /\ win_end.minute = CUTOFF_HOUR * MINUTES_PER_HOUR + CUTOFF_MINUTE
        /\ Instant(win_end) - Instant(win_start) =
               IF win_date = DST_START_DAY
               THEN MINUTES_PER_DAY - MINUTES_PER_HOUR
               ELSE IF win_date = DST_END_DAY
                    THEN MINUTES_PER_DAY + MINUTES_PER_HOUR
                    ELSE MINUTES_PER_DAY

C21_Witness ==
    /\ win_date = DST_START_DAY
    /\ win_start.utcoffset = EST_OFFSET
    /\ win_end.utcoffset = EDT_OFFSET
    /\ Instant(win_end) - Instant(win_start) = 23 * MINUTES_PER_HOUR

\* C22: apply_cutoff on an empty frame returns an empty frame, and whatever the
\* input the returned frame carries the four audit columns window start,
\* window end, cutoff-applied time and dropped-late count
C22_EmptyResultSameAuditColumns ==
    cut_date # 0 =>
        /\ cut_df = << >> => cut_result = << >>
        /\ cut_columns = {"window_start_et", "window_end_et",
                          "cutoff_applied_at", "dropped_late_count"}

\* C23: validate_cutoff_compliance leaves its input as it was, reports
\* compliant exactly when the timestamp of every record lies in (start, end]
\* of date T, with out_of_window the number of records outside; and the
\* output of apply_cutoff for T validates as compliant for T
C23_ValidateReportsWithoutFiltering ==
    val_date # 0 =>
        /\ val_df_after = val_df
        /\ val_report.compliant <=>
               \A i \in 1..Len(val_df) :
                   /\ val_df[i].ts > MembershipWindow(val_date).start
                   /\ val_df[i].ts <= MembershipWindow(val_date).end
        /\ val_report.out_of_window =
               Cardinality({i \in 1..Len(val_df) :
                   \/ val_df[i].ts <= MembershipWindow(val_date).start
                   \/ val_df[i].ts > MembershipWindow(val_date).end})
        /\ (val_df = cut_result /\ val_date = cut_date) => val_report.compliant

C23_Witness ==
    /\ val_date # 0
    /\ val_date = cut_date
    /\ val_df = cut_result
    /\ Len(cut_result) >= 1
    /\ Len(cut_result) < Len(cut_df)
    /\ \E i \in 1..Len(val_df) : val_df[i].ts = MembershipWindow(val_date).end
    /\ val_report.compliant

\* C24: whatever the row labels of the frame, add_dedup_fields returns, the
\* cluster_id of the row at each position is the id of the lowest position
\* of its duplicate component, and is_dupe is true exactly for the rows that
\* are not at that position
C24_LeaderIdWhateverTheIndex ==
    ded_outcome # "none" =>
        /\ ded_outcome = "returned"
        /\ \A p \in 1..Len(ded_labels) :
               LET reach == Reachable({p - 1}, ded_pairs)
                   leader == CHOOSE x \in reach : \A y \in reach : x <= y
               IN  /\ ded_cluster_id[p] = leader
                   /\ ded_is_dupe[p] <=> (p - 1 # leader)

\* C25: compute_novelty returns one score per record, within [0, 1]: 1.0 for
\* every record when the reference set is empty, and otherwise the minimum
\* Hamming distance to a reference fingerprint divided by the bit width,
\* which is 0 when a reference record has the same fingerprint
C25_NoveltyIsMinDistanceOverWidth ==
    nov_called =>
        /\ Len(novelties) = Len(nov_current)
        /\ \A i \in 1..Len(novelties) :
               /\ novelties[i] \in 0..NUM_BITS
               /\ nov_reference = << >> => novelties[i] = NUM_BITS
               /\ nov_reference # << >> =>
                      /\ \E j \in 1..Len(nov_reference) :
                             novelties[i] =
                                 HammingDistance(nov_current[i], nov_reference[j])
                      /\ \A j \in 1..Len(nov_reference) :
                             novelties[i] <=
                                 HammingDistance(nov_current[i], nov_reference[j])
               /\ (\E j \in 1..Len(nov_reference) :
                       nov_reference[j] = nov_current[i]) => novelties[i] = 0

\* a record whose fingerprint is that of the first of two reference records
\* and far from the second, and a record that is close to neither
C25_Witness ==
    /\ nov_called
    /\ Len(nov_current) = 2
    /\ Len(nov_reference) = 2
    /\ nov_reference[1] = nov_current[1]
    /\ HammingDistance(nov_current[1], nov_reference[2]) = NUM_BITS
    /\ novelties[1] = 0
    /\ novelties[2] = 1

\* C26: in the frame dedupe_and_score_novelty returns, a row flagged is_dupe
\* has a null novelty and a row not flagged has a novelty within [0, 1]
C26_NoveltyOnlyForNonDuplicates ==
    sco_outcome = "returned" =>
        /\ Len(sco_novelty) = Len(sco_current)
        /\ \A p \in 1..Len(sco_novelty) :
               IF sco_is_dupe[p]
               THEN sco_novelty[p] = NaN
               ELSE sco_novelty[p] \in 0..NUM_BITS

\* a leader scored against a reference row, and its duplicate left unscored
C26_Witness ==
    /\ sco_outcome = "returned"
    /\ Len(sco_current) = 2
    /\ sco_reference # << >>
    /\ ~sco_reference[1].is_dupe
    /\ ~sco_is_dupe[1]
    /\ sco_is_dupe[2]
    /\ sco_novelty[1] \in 0..(NUM_BITS - 1)
    /\ sco_novelty[2] = NaN

\* C27: when no connection attempt succeeds, connect() is over after exactly
\* max_reconnect_attempts attempts with one backoff sleep between each two
\* consecutive attempts (none after the last), each delay being the capped
\* exponential delay of its attempt times a jitter in [0.5, 1.5); then
\* ingest_news returns the received, buffered, rejected and flush counters
C27_AttemptsUpToCapThenStatistics ==
    /\ conn_pc \in {"returned", "closed"} =>
           /\ Cardinality({i \in 1..Len(conn_log) : conn_log[i] = "try"})
                  = conn_max
           /\ \A i \in 1..Len(conn_log) :
                  conn_log[i] = IF i % 2 = 1 THEN "try" ELSE "sleep"
           /\ conn_max > 0 => conn_log[Len(conn_log)] = "try"
           /\ Len(conn_delays) = (IF conn_max > 0 THEN conn_max - 1 ELSE 0)
           /\ \A k \in 1..Len(conn_delays) :
                  LET raw == BACKOFF_BASE_MS * Power(BACKOFF_FACTOR, k - 1)
                      capped == IF raw < BACKOFF_MAX_MS THEN raw
                                ELSE BACKOFF_MAX_MS
                  IN  /\ 2 * conn_delays[k] >= capped
                      /\ 2 * conn_delays[k] < 3 * capped
    /\ conn_pc = "closed" =>
           conn_result = [messages_received |-> messages_received,
                          messages_buffered |-> messages_buffered,
                          messages_rejected |-> messages_rejected,
                          flushes_completed |-> flushes_completed]

C27_Witness ==
    /\ conn_pc = "closed"
    /\ conn_max >= 3
    /\ Len(conn_log) = 2 * conn_max - 1
    /\ Len(conn_delays) = conn_max - 1
    /\ conn_delays[1] < conn_delays[2]
    /\ conn_result.flushes_completed = 0

C29_BadCheckpointFallsBackToPreScan ==
    (ck_outcome # "none" /\ ck_resume /\ ck_file.kind # "valid") =>
        /\ ck_outcome = "started"
        /\ ck_first_day =
               NextFetchDay(1, IF ck_reset THEN {} ELSE ck_partitions)

\* C30: the statistics a backfill run returns have, besides the articles and
\* the requests, a counter whose value is the number of days the run
\* abandoned
C30_AbandonedDaysInStatistics ==
    (bpc = "done" /\ abandoned # {}) =>
        \E counter \in DOMAIN ReturnedStatistics
                           \ {"articles_fetched", "requests_made"} :
            ReturnedStatistics[counter] = Cardinality(abandoned)

\* C31: a streamed message that fails validation is not added to the buffer,
\* is counted as rejected and is written to the rejects sink with its
\* validation errors, and the client goes on with the next message.
C31_RejectedGoesToRejectsSink ==
    [][(messages_received' # messages_received /\ last_errors' # << >>) =>
         /\ buffer' = buffer
         /\ seen_ids' = seen_ids
         /\ messages_rejected' = messages_rejected + 1
         /\ \E i \in 1..Len(rejects_file') :
                rejects_file'[i].errors = last_errors'
         /\ cpc' = "running"]_vars

\* C31, all but the rejects sink
C31_RejectedIsCountedNotBuffered ==
    [][(messages_received' # messages_received /\ last_errors' # << >>) =>
         /\ buffer' = buffer
         /\ seen_ids' = seen_ids
         /\ messages_rejected' = messages_rejected + 1
         /\ cpc' = "running"]_vars

\* C32: each page fetched successfully is processed exactly once: the run
\* appends and counts articles only in the step that fetched their page, one
\* page at a time, and never processes an earlier response after a failed
\* request.
C32_PageProcessedOnce ==
    [][(bpc = "running" /\ articles_fetched' > articles_fetched) =>
         /\ requests_made' = requests_made + 1
         /\ articles_fetched' = articles_fetched + 1
         /\ stale_processed' = stale_processed]_vars

\* C33: a backfill run over a finite range of days with finitely many pages
\* terminates, whatever requests fail.
C33_BackfillTerminates == (bpc = "running") ~> (bpc # "running")

\* C34: a run with reset=False skips a day as complete only if the backfill
\* fetched and persisted it: a day whose partition holds only records of the
\* streaming client is not among the days the run skips.
C34_SkipsOnlyBackfilledDays ==
    (bpc = "running" /\ ~reset) => existing_dates \subseteq backfill_files

\* C35: whenever records are buffered and the time since the last flush has
\* reached flush_interval_sec, the buffer is flushed sooner or later, whether
\* or not another message arrives.
C35_DueBufferIsFlushed ==
    (/\ cpc = "running"
     /\ buffer # << >>
     /\ now - last_flush_time >= flush_interval_sec) ~> (buffer = << >>)

\* C36: whenever a request brings the cumulative number of requests to a
\* multiple of CHECKPOINT_INTERVAL and the run goes on, a checkpoint with the
\* cursor date and the cumulative counts is saved, whether the page was the
\* last one of its day or not.
C36_CheckpointAtEveryInterval ==
    [][(/\ bpc = "running"
        /\ bpc' = "running"
        /\ requests_made' = requests_made + 1
        /\ requests_made' % CHECKPOINT_INTERVAL = 0) =>
         checkpoint' = [exists |-> TRUE, last_date |-> current_date,
                        articles_fetched |-> articles_fetched',
                        requests_made |-> requests_made']]_vars

\* C37: at the end of a run the checkpoint file is deleted only if the whole
\* range was fetched: a run that abandoned a day leaves its checkpoint.
C37_CheckpointKeptWhenDayAbandoned ==
    [][(bpc = "running" /\ bpc' = "done" /\ abandoned' # {}) =>
         checkpoint' = checkpoint]_vars

\* C38: when the safety lag is applied, dropped_late_count is the number of
\* input rows inside the membership window and within safety_lag of its upper
\* edge (end - L < ts <= end); rows outside the window are not counted.
C38_DroppedLateCountsWindowRowsOnly ==
    (cut_date # 0 /\ cut_df # << >>) =>
        cut_dropped_late =
            IF cut_training /\ cut_lag > 0
            THEN Cardinality({i \in 1..Len(cut_df) :
                     /\ cut_df[i].ts > MembershipWindow(cut_date).start
                     /\ cut_df[i].ts > MembershipWindow(cut_date).end - cut_lag
                     /\ cut_df[i].ts <= MembershipWindow(cut_date).end})
            ELSE 0

\* C39: no call of record_usage, get_next_key or get_stats lowers a key's
\* requests_today unless the date advanced since the usage was recorded: a
\* key whose last_reset_date is today keeps its count, and so does a key that
\* was never reset while the manager is still in its first day.
C39_UsageKeptWithinADay ==
    [][(num_keys # 0 /\ num_keys' = num_keys) =>
         \A k \in KeyIndices :
             requests_today'[k] < requests_today[k] =>
                 \/ k \in ResetDue
                 \/ (last_reset_date[k] = NoDate /\ today > 1)]_vars

\* C40: in a backfill_social run started without a loaded checkpoint, the
\* request that brings the count to a multiple of the interval does not end
\* the run; when the run goes on, the checkpoint file then holds the cursor
\* date, the cumulative counters and the key of the completed sub-range.
C40_SocialCheckpointWithoutLoaded ==
    [][(/\ spc = "running"
        /\ ~social_checkpoint.exists
        /\ total_requests' = total_requests + 1
        /\ total_requests' % SOCIAL_CHECKPOINT_INTERVAL = 0) =>
         /\ spc' # "crashed"
         /\ spc' = "running" =>
                /\ social_checkpoint_file'.exists
                /\ social_checkpoint_file'.current_date = DateOf(subrange)
                /\ social_checkpoint_file'.total_posts = total_posts'
                /\ social_checkpoint_file'.total_requests = total_requests'
                /\ \E i \in 1..Len(social_checkpoint_file'.completed_dates) :
                       social_checkpoint_file'.completed_dates[i] =
                           SubrangeKey(subrange)]_vars

====
